---- MODULE Spec2Model ----
(***************************************************************************)
(* A model of the rule-based scoring engines of the insurance agents       *)
(* (fraud detection, risk assessment, sentiment analysis) and of the       *)
(* claim workflow of the Claims Processor agent that composes them.        *)
(*                                                                         *)
(* Numbers.  The Python code computes in floats; the model computes the    *)
(* same quantities exactly.  Fraud weights are held in tenths and the      *)
(* normalized fraud score in hundredths (raw/5.0 = 2*raw_tenths/100);      *)
(* for all 128 rule combinations the float result of the source and the    *)
(* exact result fall on the same side of every threshold the code tests    *)
(* (0.3, 0.5, 0.7).  Risk and sentiment scores are fractions [n, d].       *)
(*                                                                         *)
(* Text.  Claim descriptions are sequences of one-character strings, so    *)
(* that str.lower(), str.split() and the substring test `in` are           *)
(* computed as Python computes them.                                       *)
(*                                                                         *)
(* Dates.  A date string is [ok, day]: ok is whether strptime parses it,   *)
(* day counts days from Monday 2024-12-30 (day 0), so that                 *)
(* weekday() = day % 7 and "2025-01-01" is day 2.                          *)
(***************************************************************************)
EXTENDS Integers, Sequences, FiniteSets, TLC

VARIABLES
  mode,                    \* which entry point the environment drives
  pc,                      \* position of the call in progress
  now,                     \* the day datetime.now() falls on
  claim_data,              \* detect_fraud / process_claim: claim dictionary
  policy_data,             \* policy dictionary
  customer_history,        \* customer history dictionary
  fraud_detection_result,  \* what fraud scoring returned
  claim_status,            \* status chosen from the fraud score
  risk_items,              \* assess_risk: item category -> count
  location_factors,        \* assess_risk: list of location tags
  risk_result,             \* what assess_risk returned
  text,                    \* analyze_sentiment: the text analyzed
  sentiment_result,        \* what analyze_sentiment returned
  fault,                   \* process_claim: the statement that raises
  claim_description,       \* the description submitted with the claim
  raw_analysis,            \* the text the vision model answers with
  image_analysis,          \* what analyze_image returned
  claim_amount,            \* the amount computed for the claim
  claim_assessment,        \* the claim assessment dictionary
  tables,                  \* the tables of the record store
  store_calls,             \* the store calls made, and which of them raised
  error,                   \* str(e) of the exception being handled
  result,                  \* what process_claim returned
  query,                   \* _categorize_query: the customer's query
  query_category,          \* the category _categorize_query returned
  document_text,           \* analyze_document: the text of the document
  document_result,         \* what the document analysis returned
  fraud_score_in,          \* the fraud score handed to both claim paths
  simple_status,           \* the status the simple claim path chose
  detailed_status,         \* the status ClaimsProcessor.process_claim chose
  store_tables,            \* the tables of the one MockSupabaseClient instance
  agent_pc,                \* the statement of a store call each agent has reached
  agent_call,              \* the record and the table of each agent's call
  calls_begun              \* how many store calls have begun

vars ==
  <<mode, pc, now, claim_data, policy_data, customer_history,
    fraud_detection_result, claim_status,
    risk_items, location_factors, risk_result, text, sentiment_result,
    fault, claim_description, raw_analysis, image_analysis, claim_amount,
    claim_assessment, tables, store_calls, error, result,
    query, query_category,
    document_text, document_result,
    fraud_score_in, simple_status, detailed_status,
    store_tables, agent_pc, agent_call, calls_begun>>

\* the variables of each entry point
fraud_vars ==
  <<now, claim_data, policy_data, customer_history,
    fraud_detection_result, claim_status>>

risk_vars ==
  <<risk_items, location_factors, risk_result>>

sentiment_vars ==
  <<text, sentiment_result>>

workflow_vars ==
  <<fault, claim_description, raw_analysis, image_analysis, claim_amount,
    claim_assessment, tables, store_calls, error, result>>

categorize_vars ==
  <<query, query_category>>

document_vars ==
  <<document_text, document_result>>

cutoff_vars ==
  <<fraud_score_in, simple_status, detailed_status>>

store_vars ==
  <<store_tables, agent_pc, agent_call, calls_begun>>

----------------------------------------------------------------------------
(* Python string operations on character sequences.                        *)

UpperToLower ==
  ("A" :> "a" @@ "B" :> "b" @@ "C" :> "c" @@ "D" :> "d" @@ "E" :> "e" @@
   "F" :> "f" @@ "G" :> "g" @@ "H" :> "h" @@ "I" :> "i" @@ "J" :> "j" @@
   "K" :> "k" @@ "L" :> "l" @@ "M" :> "m" @@ "N" :> "n" @@ "O" :> "o" @@
   "P" :> "p" @@ "Q" :> "q" @@ "R" :> "r" @@ "S" :> "s" @@ "T" :> "t" @@
   "U" :> "u" @@ "V" :> "v" @@ "W" :> "w" @@ "X" :> "x" @@ "Y" :> "y" @@
   "Z" :> "z")

\* str.lower() on one character
LowerChar(c) ==
  IF c \in DOMAIN UpperToLower THEN UpperToLower[c] ELSE c

\* str.lower()
Lower(s) ==
  [i \in 1..Len(s) |-> LowerChar(s[i])]

\* the substring test  p in s
Contains(s, p) ==
  \E i \in 0..(Len(s) - Len(p)) : SubSeq(s, i + 1, i + Len(p)) = p

IsSpace(c) ==
  c \in {" ", "\t", "\n"}

\* len(s.split()): the number of maximal runs of non-whitespace characters
WordCount(s) ==
  Cardinality({i \in 1..Len(s) :
                 /\ ~IsSpace(s[i])
                 /\ (i = 1 \/ IsSpace(s[i - 1]))})

----------------------------------------------------------------------------
(* Keywords of the fraud rules and the claim descriptions the model feeds. *)

\* "water damage"
KW_water_damage ==
  <<"w","a","t","e","r"," ","d","a","m","a","g","e">>

\* "flood"
KW_flood ==
  <<"f","l","o","o","d">>

\* "rain"
KW_rain ==
  <<"r","a","i","n">>

\* "storm"
KW_storm ==
  <<"s","t","o","r","m">>

\* "theft"
KW_theft ==
  <<"t","h","e","f","t">>

\* "stolen"
KW_stolen ==
  <<"s","t","o","l","e","n">>

\* "police report"
KW_police_report ==
  <<"p","o","l","i","c","e"," ","r","e","p","o","r","t">>

\* "Theft of jewelry, stolen last night" (6 words)
DescTheftJewelry ==
  <<"T","h","e","f","t"," ","o","f"," ","j","e","w","e","l","r","y",","," ",
    "s","t","o","l","e","n"," ","l","a","s","t"," ","n","i","g","h","t">>

\* "Minor water damage from a leaking pipe, no police report" (10 words)
DescLeakingPipe ==
  <<"M","i","n","o","r"," ","w","a","t","e","r"," ","d","a","m","a","g","e",
    " ","f","r","o","m"," ","a"," ","l","e","a","k","i","n","g"," ","p","i",
    "p","e",","," ","n","o"," ","p","o","l","i","c","e"," ","r","e","p","o",
    "r","t">>

\* "My bike was stolen, no police report" (7 words)
DescStolenNoReport ==
  <<"M","y"," ","b","i","k","e"," ","w","a","s"," ","s","t","o","l","e","n",
    ","," ","n","o"," ","p","o","l","i","c","e"," ","r","e","p","o","r","t">>

\* "Water damage near the drain" (5 words)
DescDrain ==
  <<"W","a","t","e","r"," ","d","a","m","a","g","e"," ","n","e","a","r"," ",
    "t","h","e"," ","d","r","a","i","n">>

\* "FLOOD after the storm" (4 words)
DescFloodStorm ==
  <<"F","L","O","O","D"," ","a","f","t","e","r"," ","t","h","e"," ","s","t",
    "o","r","m">>

\* "the roof of the old garden shed fell in and broke the two wooden chairs we kept inside it" (19 words)
DescNineteen ==
  <<"t","h","e"," ","r","o","o","f"," ","o","f"," ","t","h","e"," ","o","l",
    "d"," ","g","a","r","d","e","n"," ","s","h","e","d"," ","f","e","l","l",
    " ","i","n"," ","a","n","d"," ","b","r","o","k","e"," ","t","h","e"," ",
    "t","w","o"," ","w","o","o","d","e","n"," ","c","h","a","i","r","s"," ",
    "w","e"," ","k","e","p","t"," ","i","n","s","i","d","e"," ","i","t">>

\* "the roof of the old garden shed fell in and broke the two wooden chairs we kept inside it overnight" (20 words)
DescTwenty ==
  <<"t","h","e"," ","r","o","o","f"," ","o","f"," ","t","h","e"," ","o","l",
    "d"," ","g","a","r","d","e","n"," ","s","h","e","d"," ","f","e","l","l",
    " ","i","n"," ","a","n","d"," ","b","r","o","k","e"," ","t","h","e"," ",
    "t","w","o"," ","w","o","o","d","e","n"," ","c","h","a","i","r","s"," ",
    "w","e"," ","k","e","p","t"," ","i","n","s","i","d","e"," ","i","t"," ",
    "o","v","e","r","n","i","g","h","t">>

\* "Someone broke the back door while we were away for two weeks and the new bicycle was stolen from the hall" (21 words)
DescLongTheft ==
  <<"S","o","m","e","o","n","e"," ","b","r","o","k","e"," ","t","h","e"," ",
    "b","a","c","k"," ","d","o","o","r"," ","w","h","i","l","e"," ","w","e",
    " ","w","e","r","e"," ","a","w","a","y"," ","f","o","r"," ","t","w","o",
    " ","w","e","e","k","s"," ","a","n","d"," ","t","h","e"," ","n","e","w",
    " ","b","i","c","y","c","l","e"," ","w","a","s"," ","s","t","o","l","e",
    "n"," ","f","r","o","m"," ","t","h","e"," ","h","a","l","l">>

\* "There is water damage on the kitchen floor and on the lower cabinets because the pipe under the sink burst on monday" (22 words)
DescLongWater ==
  <<"T","h","e","r","e"," ","i","s"," ","w","a","t","e","r"," ","d","a","m",
    "a","g","e"," ","o","n"," ","t","h","e"," ","k","i","t","c","h","e","n",
    " ","f","l","o","o","r"," ","a","n","d"," ","o","n"," ","t","h","e"," ",
    "l","o","w","e","r"," ","c","a","b","i","n","e","t","s"," ","b","e","c",
    "a","u","s","e"," ","t","h","e"," ","p","i","p","e"," ","u","n","d","e",
    "r"," ","t","h","e"," ","s","i","n","k"," ","b","u","r","s","t"," ","o",
    "n"," ","m","o","n","d","a","y">>

\* "Flood, then theft" (3 words)
DescAllFlags ==
  <<"F","l","o","o","d",","," ","t","h","e","n"," ","t","h","e","f","t">>

\* the empty description
DescEmpty ==
  <<>>

Descriptions ==
  {DescTheftJewelry,
   DescLeakingPipe,
   DescStolenNoReport,
   DescDrain,
   DescFloodStorm,
   DescNineteen,
   DescTwenty,
   DescLongTheft,
   DescLongWater,
   DescAllFlags,
   DescEmpty}

----------------------------------------------------------------------------
(* Values shared by the entry points.                                      *)

\* a date string strptime parses, as its day number
Date(d) ==
  [ok |-> TRUE, day |-> d]

\* a missing or unparsable date string
BadDate ==
  [ok |-> FALSE, day |-> 0]

\* the value of fraud_detection_result before fraud scoring has run
NoFraudResult ==
  [fraud_score |-> 0, risk_category |-> "", indicators_found |-> <<>>,
   recommended_action |-> ""]

----------------------------------------------------------------------------
(* FraudDetectorTool: the weight table, the seven rule checks and          *)
(* detect_fraud.  Weights are in tenths.                                   *)

\* mutant: the theft red flag weighs 0.9
fraud_indicators_heavy_theft ==
  [timing    |-> [recent_policy |-> 7, weekend_claim |-> 3,
                  night_claim |-> 4, holiday_claim |-> 5],
   content   |-> [vague_description |-> 6, excessive_items |-> 5,
                  high_value_items |-> 4, no_receipts |-> 3, no_photos |-> 5],
   history   |-> [multiple_claims |-> 7, previous_denials |-> 8,
                  policy_changes |-> 5],
   red_flags |-> [water_damage_no_weather |-> 7, theft_no_police_report |-> 9,
                  fire_no_fire_dept |-> 7, inconsistent_statements |-> 9]]

fraud_indicators ==
  [timing    |-> [recent_policy |-> 7, weekend_claim |-> 3,
                  night_claim |-> 4, holiday_claim |-> 5],
   content   |-> [vague_description |-> 6, excessive_items |-> 5,
                  high_value_items |-> 4, no_receipts |-> 3, no_photos |-> 5],
   history   |-> [multiple_claims |-> 7, previous_denials |-> 8,
                  policy_changes |-> 5],
   red_flags |-> [water_damage_no_weather |-> 7, theft_no_police_report |-> 8,
                  fire_no_fire_dept |-> 7, inconsistent_statements |-> 9]]

\* mutant: a start date that does not parse counts as a recent policy
check_recent_policy_unparsed_hits(pd, today) ==
  IF pd.start_date.ok
    THEN (today - pd.start_date.day) < 30
    ELSE TRUE

\* days_active is measured from policy start to the day of the call
check_recent_policy(pd, today) ==
  IF pd.start_date.ok
    THEN (today - pd.start_date.day) < 30
    ELSE FALSE

check_weekend_claim(cd) ==
  IF cd.report_date.ok
    THEN (cd.report_date.day % 7) >= 5
    ELSE FALSE

\* mutant: the length of the description in characters is tested
check_vague_description_chars(cd) ==
  Len(cd.description) < 20

check_vague_description(cd) ==
  WordCount(cd.description) < 20

check_excessive_items(cd) ==
  Len(cd.items) > 15

check_multiple_claims(ch) ==
  ch.recent_claims >= 3

check_water_damage_no_weather(cd) ==
  LET description == Lower(cd.description)
      has_water_damage ==
        Contains(description, KW_water_damage) \/ Contains(description, KW_flood)
      has_weather_event ==
        Contains(description, KW_rain) \/ Contains(description, KW_storm)
  IN  has_water_damage /\ ~has_weather_event

check_theft_no_police_report(cd) ==
  LET description == Lower(cd.description)
      has_theft ==
        Contains(description, KW_theft) \/ Contains(description, KW_stolen)
  IN  has_theft /\ ~cd.police_report

\* the rules in the order detect_fraud evaluates them
FraudRules(cd, pd, ch, today) ==
  << [hit    |-> check_recent_policy(pd, today),
      weight |-> fraud_indicators.timing.recent_policy,
      label  |-> "Recent policy creation"],
     [hit    |-> check_weekend_claim(cd),
      weight |-> fraud_indicators.timing.weekend_claim,
      label  |-> "Claim filed on weekend"],
     [hit    |-> check_vague_description(cd),
      weight |-> fraud_indicators.content.vague_description,
      label  |-> "Vague claim description"],
     [hit    |-> check_excessive_items(cd),
      weight |-> fraud_indicators.content.excessive_items,
      label  |-> "Excessive number of items claimed"],
     [hit    |-> check_multiple_claims(ch),
      weight |-> fraud_indicators.history.multiple_claims,
      label  |-> "Multiple recent claims"],
     [hit    |-> check_water_damage_no_weather(cd),
      weight |-> fraud_indicators.red_flags.water_damage_no_weather,
      label  |-> "Water damage claim without weather event"],
     [hit    |-> check_theft_no_police_report(cd),
      weight |-> fraud_indicators.red_flags.theft_no_police_report,
      label  |-> "Theft claim without police report"] >>

\* fraud_score after the first k rules (tenths)
RECURSIVE AccumulateScore(_, _)
AccumulateScore(rules, k) ==
  IF k = 0
    THEN 0
    ELSE AccumulateScore(rules, k - 1)
           + (IF rules[k].hit THEN rules[k].weight ELSE 0)

\* mutant: the label of a triggered rule is put in front of the list
RECURSIVE AccumulateIndicators_prepend(_, _)
AccumulateIndicators_prepend(rules, k) ==
  IF k = 0
    THEN <<>>
    ELSE IF rules[k].hit
           THEN <<rules[k].label>> \o AccumulateIndicators_prepend(rules, k - 1)
           ELSE AccumulateIndicators_prepend(rules, k - 1)

\* fraud_indicators_found after the first k rules
RECURSIVE AccumulateIndicators(_, _)
AccumulateIndicators(rules, k) ==
  IF k = 0
    THEN <<>>
    ELSE IF rules[k].hit
           THEN Append(AccumulateIndicators(rules, k - 1), rules[k].label)
           ELSE AccumulateIndicators(rules, k - 1)

\* the raw fraud_score of detect_fraud before normalization (tenths)
RawFraudScore(cd, pd, ch, today) ==
  LET rules == FraudRules(cd, pd, ch, today)
  IN  AccumulateScore(rules, Len(rules))

\* mutant: the accumulated score is returned without normalization
NormalizeScore_raw(raw) ==
  10 * raw

\* min(fraud_score / 5.0, 1.0), in hundredths
NormalizeScore(raw) ==
  IF 2 * raw < 100 THEN 2 * raw ELSE 100

\* mutant: the High threshold is inclusive
FraudRiskCategory_inclusive(normalized_score) ==
  IF normalized_score >= 70
    THEN "High"
    ELSE IF normalized_score > 30 THEN "Medium" ELSE "Low"

FraudRiskCategory(normalized_score) ==
  IF normalized_score > 70
    THEN "High"
    ELSE IF normalized_score > 30 THEN "Medium" ELSE "Low"

RecommendedAction(risk_category) ==
  IF risk_category = "High"
    THEN "Escalate for investigation"
    ELSE IF risk_category = "Medium"
           THEN "Request additional documentation"
           ELSE "Process claim normally"

detect_fraud(cd, pd, ch, today) ==
  LET rules == FraudRules(cd, pd, ch, today)
      normalized_score == NormalizeScore(AccumulateScore(rules, Len(rules)))
      risk_category == FraudRiskCategory(normalized_score)
  IN  [fraud_score        |-> normalized_score,
       risk_category      |-> risk_category,
       indicators_found   |-> AccumulateIndicators(rules, Len(rules)),
       recommended_action |-> RecommendedAction(risk_category)]

----------------------------------------------------------------------------
(* ClaimsProcessor.process_claim: the status chosen from the fraud score.  *)

DetermineClaimStatus(fraud_score) ==
  IF fraud_score > 50
    THEN "Under Review"
    ELSE IF fraud_score > 70 THEN "Rejected" ELSE "Approved"

----------------------------------------------------------------------------
(* RiskModelTool.assess_risk.  Factors are held in twentieths (every       *)
(* factor of the tables is a multiple of 0.05) and coverage in thousands   *)
(* of dollars; a score is a fraction [n, d] with value n / d.  A fraction  *)
(* with d = 0 stands for the ZeroDivisionError Python raises on a division *)
(* by zero.                                                                *)

Abs(x) ==
  IF x < 0 THEN -x ELSE x

RECURSIVE Gcd(_, _)
Gcd(a, b) ==
  IF b = 0 THEN a ELSE Gcd(b, a % b)

\* the fraction n / d in lowest terms (the value is unchanged)
Frac(n, d) ==
  IF d = 0
    THEN [n |-> n, d |-> 0]
    ELSE LET g == Gcd(Abs(n), Abs(d))
         IN  [n |-> n \div g, d |-> d \div g]

property_risk_factors ==
  ("electronics" :> 24 @@ "jewelry" :> 30 @@ "art" :> 26 @@
   "furniture" :> 22 @@ "appliances" :> 23 @@ "sports_equipment" :> 21 @@
   "musical_instruments" :> 25)

location_risk_factors ==
  ("flood_zone" :> 28 @@ "high_crime" :> 26 @@ "wildfire_prone" :> 27 @@
   "hurricane_prone" :> 29 @@ "earthquake_prone" :> 30 @@ "urban" :> 22 @@
   "suburban" :> 20 @@ "rural" :> 19)

\* str.lower() on the dictionary keys and tags the model feeds
LowerName(name) ==
  IF name = "Electronics" THEN "electronics"
  ELSE IF name = "Rural" THEN "rural"
  ELSE name

\* self.property_risk_factors.get(item_category.lower(), 1.0)
PropertyRiskFactor(item_category) ==
  IF LowerName(item_category) \in DOMAIN property_risk_factors
    THEN property_risk_factors[LowerName(item_category)]
    ELSE 20

\* the loop over items.items(): sums of risk_factor * count and of count
RECURSIVE SumItemRisk(_, _)
SumItemRisk(items, cats) ==
  IF cats = {}
    THEN 0
    ELSE LET c == CHOOSE x \in cats : TRUE
         IN  PropertyRiskFactor(c) * items[c] + SumItemRisk(items, cats \ {c})

RECURSIVE SumItemCount(_, _)
SumItemCount(items, cats) ==
  IF cats = {}
    THEN 0
    ELSE LET c == CHOOSE x \in cats : TRUE
         IN  items[c] + SumItemCount(items, cats \ {c})

TotalItems(items) ==
  SumItemCount(items, DOMAIN items)

\* mutant: the division is not guarded by total_items > 0
NormalizeItemRisk_unguarded(item_risk, total_items) ==
  Frac(item_risk, 20 * total_items)

\* if total_items > 0: item_risk = item_risk / total_items
NormalizeItemRisk(item_risk, total_items) ==
  IF total_items > 0
    THEN Frac(item_risk, 20 * total_items)
    ELSE Frac(item_risk, 20)

\* the loop over location_factors: the product of the recognized factors
RECURSIVE LocationRisk(_, _)
LocationRisk(factors, k) ==
  IF k = 0
    THEN [n |-> 1, d |-> 1]
    ELSE LET rest == LocationRisk(factors, k - 1)
         IN  IF LowerName(factors[k]) \in DOMAIN location_risk_factors
               THEN Frac(rest.n * location_risk_factors[LowerName(factors[k])],
                         rest.d * 20)
               ELSE rest

\* mutant: the High threshold is inclusive
RiskCategory_inclusive(overall_risk) ==
  IF overall_risk.n < overall_risk.d
    THEN "Low"
    ELSE IF 2 * overall_risk.n >= 3 * overall_risk.d THEN "High" ELSE "Medium"

\* Low below 1.0, High above 1.5, Medium otherwise
RiskCategory(overall_risk) ==
  IF overall_risk.n < overall_risk.d
    THEN "Low"
    ELSE IF 2 * overall_risk.n > 3 * overall_risk.d THEN "High" ELSE "Medium"

NoRiskResult ==
  [raised |-> FALSE, risk_score |-> [n |-> 0, d |-> 1], risk_category |-> "",
   recommended_coverage |-> [n |-> 0, d |-> 1],
   annual_premium |-> [n |-> 0, d |-> 1],
   monthly_premium |-> [n |-> 0, d |-> 1],
   item_risk_contribution |-> [n |-> 0, d |-> 1],
   location_risk_contribution |-> [n |-> 0, d |-> 1]]

assess_risk(items, factors) ==
  LET total_items == TotalItems(items)
      item_risk ==
        NormalizeItemRisk(SumItemRisk(items, DOMAIN items), total_items)
      location_risk == LocationRisk(factors, Len(factors))
      overall_risk ==
        Frac(item_risk.n * location_risk.n, item_risk.d * location_risk.d)
      total_coverage == 50 + (total_items * 1)
      adjusted_coverage ==
        Frac(total_coverage * overall_risk.n, overall_risk.d)
      annual_premium ==
        Frac(adjusted_coverage.n, adjusted_coverage.d * 50)
  IN  IF item_risk.d = 0
        THEN [NoRiskResult EXCEPT !.raised = TRUE]
        ELSE [raised |-> FALSE,
              risk_score |-> overall_risk,
              risk_category |-> RiskCategory(overall_risk),
              recommended_coverage |-> adjusted_coverage,
              annual_premium |-> annual_premium,
              monthly_premium |->
                Frac(annual_premium.n, annual_premium.d * 12),
              item_risk_contribution |-> item_risk,
              location_risk_contribution |-> location_risk]

----------------------------------------------------------------------------
(* SentimentAnalyzerTool.analyze_sentiment: the lexicon counts, the base   *)
(* score, the intensity-modifier adjustments and the clamp.  The text is   *)
(* a sequence of characters; multipliers are in tenths and the score is a  *)
(* fraction.  The emotions and key_phrases fields of the result are not    *)
(* part of the model.                                                      *)

\* self.positive_words
positive_words ==
  {<<"g","o","o","d">>,
   <<"g","r","e","a","t">>,
   <<"e","x","c","e","l","l","e","n","t">>,
   <<"a","m","a","z","i","n","g">>,
   <<"w","o","n","d","e","r","f","u","l">>,
   <<"f","a","n","t","a","s","t","i","c">>,
   <<"h","e","l","p","f","u","l">>,
   <<"s","a","t","i","s","f","i","e","d">>,
   <<"h","a","p","p","y">>,
   <<"p","l","e","a","s","e","d">>,
   <<"l","o","v","e">>,
   <<"l","i","k","e">>,
   <<"b","e","s","t">>,
   <<"t","h","a","n","k">>,
   <<"t","h","a","n","k","s">>,
   <<"a","p","p","r","e","c","i","a","t","e">>,
   <<"o","u","t","s","t","a","n","d","i","n","g">>,
   <<"p","e","r","f","e","c","t">>,
   <<"a","w","e","s","o","m","e">>,
   <<"e","a","s","y">>,
   <<"c","l","e","a","r">>,
   <<"f","a","s","t">>,
   <<"q","u","i","c","k">>,
   <<"r","e","s","p","o","n","s","i","v","e">>,
   <<"f","r","i","e","n","d","l","y">>,
   <<"e","f","f","i","c","i","e","n","t">>}

\* self.negative_words
negative_words ==
  {<<"b","a","d">>,
   <<"p","o","o","r">>,
   <<"t","e","r","r","i","b","l","e">>,
   <<"a","w","f","u","l">>,
   <<"h","o","r","r","i","b","l","e">>,
   <<"d","i","s","a","p","p","o","i","n","t","i","n","g">>,
   <<"f","r","u","s","t","r","a","t","e","d">>,
   <<"u","n","h","a","p","p","y">>,
   <<"d","i","s","s","a","t","i","s","f","i","e","d">>,
   <<"a","n","g","r","y">>,
   <<"u","p","s","e","t">>,
   <<"h","a","t","e">>,
   <<"d","i","s","l","i","k","e">>,
   <<"w","o","r","s","t">>,
   <<"s","l","o","w">>,
   <<"d","i","f","f","i","c","u","l","t">>,
   <<"c","o","n","f","u","s","i","n","g">>,
   <<"c","o","m","p","l","i","c","a","t","e","d">>,
   <<"e","x","p","e","n","s","i","v","e">>,
   <<"o","v","e","r","p","r","i","c","e","d">>,
   <<"r","u","d","e">>,
   <<"u","n","p","r","o","f","e","s","s","i","o","n","a","l">>,
   <<"i","n","e","f","f","i","c","i","e","n","t">>,
   <<"p","r","o","b","l","e","m">>,
   <<"i","s","s","u","e">>,
   <<"c","o","m","p","l","a","i","n","t">>,
   <<"e","r","r","o","r">>,
   <<"m","i","s","t","a","k","e">>,
   <<"d","e","l","a","y">>,
   <<"f","a","i","l">>}

\* self.neutral_words
neutral_words ==
  {<<"o","k","a","y">>,
   <<"o","k">>,
   <<"f","i","n","e">>,
   <<"a","v","e","r","a","g","e">>,
   <<"n","e","u","t","r","a","l">>,
   <<"f","a","i","r">>,
   <<"d","e","c","e","n","t">>,
   <<"a","c","c","e","p","t","a","b","l","e">>,
   <<"m","o","d","e","r","a","t","e">>,
   <<"s","t","a","n","d","a","r","d">>,
   <<"n","o","r","m","a","l">>,
   <<"r","e","g","u","l","a","r">>,
   <<"u","s","u","a","l">>}

\* self.intensity_modifiers, in dictionary order; multipliers in tenths
intensity_modifiers ==
  <<[modifier |-> <<"v","e","r","y">>, multiplier |-> 15],
    [modifier |-> <<"e","x","t","r","e","m","e","l","y">>, multiplier |-> 20],
    [modifier |-> <<"r","e","a","l","l","y">>, multiplier |-> 15],
    [modifier |-> <<"s","o","m","e","w","h","a","t">>, multiplier |-> 5],
    [modifier |-> <<"s","l","i","g","h","t","l","y">>, multiplier |-> 3],
    [modifier |-> <<"a"," ","b","i","t">>, multiplier |-> 3],
    [modifier |-> <<"a","b","s","o","l","u","t","e","l","y">>, multiplier |-> 20],
    [modifier |-> <<"c","o","m","p","l","e","t","e","l","y">>, multiplier |-> 18],
    [modifier |-> <<"t","o","t","a","l","l","y">>, multiplier |-> 18]>>

\* the characters \w matches in the texts the model feeds
IsWordChar(c) ==
  c \in {"a", "b", "c", "d", "e", "f", "g", "h", "i", "j", "k", "l", "m",
         "n", "o", "p", "q", "r", "s", "t", "u", "v", "w", "x", "y", "z",
         "0", "1", "2", "3", "4", "5", "6", "7", "8", "9", "_"}
    \/ c \in DOMAIN UpperToLower

\* the last index of the run of word characters that starts at i
RECURSIVE RunEnd(_, _)
RunEnd(s, i) ==
  IF i < Len(s) /\ IsWordChar(s[i + 1]) THEN RunEnd(s, i + 1) ELSE i

\* the index of the first non-whitespace character at or after i
RECURSIVE SkipSpace(_, _)
SkipSpace(s, i) ==
  IF i <= Len(s) /\ IsSpace(s[i]) THEN SkipSpace(s, i + 1) ELSE i

\* re.findall(r'\b\w+\b', s), scanning from index i
RECURSIVE FindWords(_, _)
FindWords(s, i) ==
  IF i > Len(s)
    THEN <<>>
    ELSE IF IsWordChar(s[i])
           THEN <<SubSeq(s, i, RunEnd(s, i))>> \o FindWords(s, RunEnd(s, i) + 1)
           ELSE FindWords(s, i + 1)

\* re.findall(rf"{modifier}\s+(\w+)", s), scanning from index i: the words
\* captured by the non-overlapping matches, leftmost first
RECURSIVE FindFollowers(_, _, _)
FindFollowers(s, modifier, i) ==
  IF i + Len(modifier) > Len(s)
    THEN <<>>
    ELSE LET after == i + Len(modifier)
             word == SkipSpace(s, after)
         IN  IF /\ SubSeq(s, i, after - 1) = modifier
                /\ IsSpace(s[after])
                /\ word <= Len(s)
                /\ IsWordChar(s[word])
               THEN <<SubSeq(s, word, RunEnd(s, word))>>
                      \o FindFollowers(s, modifier, RunEnd(s, word) + 1)
               ELSE FindFollowers(s, modifier, i + 1)

CountIn(words, lexicon) ==
  Cardinality({i \in 1..Len(words) : words[i] \in lexicon})

\* what one modifier adds to the score, in units of
\* (1 / total_sentiment_words if total_sentiment_words > 0 else 0.1) / 10
ModifierAdjustment(s, m) ==
  IF Contains(s, m.modifier)
    THEN LET matches == FindFollowers(s, m.modifier, 1)
         IN  (m.multiplier - 10)
               * (CountIn(matches, positive_words)
                    - CountIn(matches, negative_words))
    ELSE 0

RECURSIVE SumAdjustments(_, _)
SumAdjustments(s, k) ==
  IF k = 0
    THEN 0
    ELSE SumAdjustments(s, k - 1) + ModifierAdjustment(s, intensity_modifiers[k])

\* mutant: the score is returned without the clamp
ClampScore_none(score) ==
  score

\* max(-1, min(1, sentiment_score))
ClampScore(score) ==
  IF score.n > score.d
    THEN Frac(1, 1)
    ELSE IF score.n < -score.d THEN Frac(-1, 1) ELSE score

\* The category of a score.  The source compares floats with 0.3 and -0.3:
\* a score whose exact value is on a threshold may fall on either side of
\* it after rounding (1 + (0.3 - 1) is 0.30000000000000004), so both
\* outcomes are kept for such a score.
SentimentCategories(score) ==
  IF 10 * score.n > 3 * score.d THEN {"positive"}
  ELSE IF 10 * score.n = 3 * score.d THEN {"positive", "neutral"}
  ELSE IF 10 * score.n < -3 * score.d THEN {"negative"}
  ELSE IF 10 * score.n = -3 * score.d THEN {"negative", "neutral"}
  ELSE {"neutral"}

\* the sentiment_score of analyze_sentiment before the clamp
UnclampedScore(raw_text) ==
  LET s == Lower(raw_text)
      words == FindWords(s, 1)
      positive_count == CountIn(words, positive_words)
      negative_count == CountIn(words, negative_words)
      neutral_count == CountIn(words, neutral_words)
      total_sentiment_words == positive_count + negative_count + neutral_count
      adjustments == SumAdjustments(s, Len(intensity_modifiers))
  IN  IF total_sentiment_words = 0
        THEN Frac(adjustments, 100)
        ELSE Frac(10 * (positive_count - negative_count) + adjustments,
                  10 * total_sentiment_words)

\* the results analyze_sentiment can return for a text
analyze_sentiment(raw_text) ==
  LET s == Lower(raw_text)
      words == FindWords(s, 1)
      sentiment_score == ClampScore(UnclampedScore(raw_text))
  IN  {[sentiment       |-> sentiment,
        sentiment_score |-> sentiment_score,
        positive_count  |-> CountIn(words, positive_words),
        negative_count  |-> CountIn(words, negative_words),
        neutral_count   |-> CountIn(words, neutral_words)] :
         sentiment \in SentimentCategories(sentiment_score)}

----------------------------------------------------------------------------
(* ClaimsProcessor: the helpers of process_claim.  Amounts are in dollars. *)
(* The image_analysis copy that process_claim puts in claim_data is read   *)
(* by no rule and is left out of the record.                               *)

\* the words that mark a line of the analysis as an item
ItemLineWords ==
  {<<"i","t","e","m">>,
   <<"o","b","j","e","c","t">>,
   <<"d","a","m","a","g","e","d">>,
   <<"b","r","o","k","e","n">>,
   <<"s","t","o","l","e","n">>}

\* the words that mark a sentence of the analysis as an item
ItemSentenceWords ==
  {<<"s","e","e">>,
   <<"v","i","s","i","b","l","e">>,
   <<"a","p","p","e","a","r","s">>,
   <<"s","h","o","w","i","n","g">>,
   <<"c","o","n","t","a","i","n","s">>}

\* the keyword table of _get_item_value, in the order it is tested
item_values ==
  <<[keywords |-> {<<"t","v">>, <<"t","e","l","e","v","i","s","i","o","n">>}, value |-> 500],
    [keywords |-> {<<"c","o","m","p","u","t","e","r">>, <<"l","a","p","t","o","p">>}, value |-> 1000],
    [keywords |-> {<<"p","h","o","n","e">>, <<"s","m","a","r","t","p","h","o","n","e">>}, value |-> 800],
    [keywords |-> {<<"j","e","w","e","l","r","y">>}, value |-> 2000],
    [keywords |-> {<<"f","u","r","n","i","t","u","r","e">>}, value |-> 1500],
    [keywords |-> {<<"a","p","p","l","i","a","n","c","e">>}, value |-> 1200]>>

\* two item lines, a blank line and a line without item words
AnalysisItems ==
  <<"D","a","m","a","g","e","d"," ","T","V"," ","o","n"," ","t","h","e"," ",
    "f","l","o","o","r","\n","B","r","o","k","e","n"," ","l","a","p","t",
    "o","p"," ","i","t","e","m","\n","\n","T","h","e"," ","r","o","o","m",
    " ","i","s"," ","d","r","y",".">>

\* no item line; one sentence with an item-sentence word
AnalysisVisible ==
  <<"A"," ","s","o","f","a"," ","i","s"," ","v","i","s","i","b","l","e",".",
    " ","N","o","t","h","i","n","g"," ","e","l","s","e","!">>

\* sixteen item lines
AnalysisManyItems ==
  <<"S","t","o","l","e","n"," ","j","e","w","e","l","r","y"," ","i","t","e",
    "m","\n","S","t","o","l","e","n"," ","j","e","w","e","l","r","y"," ",
    "i","t","e","m","\n","S","t","o","l","e","n"," ","j","e","w","e","l",
    "r","y"," ","i","t","e","m","\n","S","t","o","l","e","n"," ","j","e",
    "w","e","l","r","y"," ","i","t","e","m","\n","S","t","o","l","e","n",
    " ","j","e","w","e","l","r","y"," ","i","t","e","m","\n","S","t","o",
    "l","e","n"," ","j","e","w","e","l","r","y"," ","i","t","e","m","\n",
    "S","t","o","l","e","n"," ","j","e","w","e","l","r","y"," ","i","t","e",
    "m","\n","S","t","o","l","e","n"," ","j","e","w","e","l","r","y"," ",
    "i","t","e","m","\n","S","t","o","l","e","n"," ","j","e","w","e","l",
    "r","y"," ","i","t","e","m","\n","S","t","o","l","e","n"," ","j","e",
    "w","e","l","r","y"," ","i","t","e","m","\n","S","t","o","l","e","n",
    " ","j","e","w","e","l","r","y"," ","i","t","e","m","\n","S","t","o",
    "l","e","n"," ","j","e","w","e","l","r","y"," ","i","t","e","m","\n",
    "S","t","o","l","e","n"," ","j","e","w","e","l","r","y"," ","i","t","e",
    "m","\n","S","t","o","l","e","n"," ","j","e","w","e","l","r","y"," ",
    "i","t","e","m","\n","S","t","o","l","e","n"," ","j","e","w","e","l",
    "r","y"," ","i","t","e","m","\n","S","t","o","l","e","n"," ","j","e",
    "w","e","l","r","y"," ","i","t","e","m">>

\* the empty analysis
AnalysisEmpty ==
  <<>>

\* the policy number of the call
PolicyNumber ==
  <<"P","O","L","-","1">>

\* str.strip()
RECURSIVE StripLeft(_)
StripLeft(s) ==
  IF s # <<>> /\ IsSpace(s[1]) THEN StripLeft(Tail(s)) ELSE s

RECURSIVE StripRight(_)
StripRight(s) ==
  IF s # <<>> /\ IsSpace(s[Len(s)])
    THEN StripRight(SubSeq(s, 1, Len(s) - 1))
    ELSE s

Strip(s) ==
  StripRight(StripLeft(s))

\* s.split('\n') and re.split(r'[.!?]', s): the pieces of s between the
\* characters of seps, empty pieces included
SplitOn(s, seps) ==
  LET cuts == {i \in 1..Len(s) : s[i] \in seps}
      \* the k-th cut; position 0 before the first, Len(s) + 1 after the last
      Cut(k) == IF k = 0
                  THEN 0
                  ELSE IF k > Cardinality(cuts)
                         THEN Len(s) + 1
                         ELSE CHOOSE c \in cuts :
                                Cardinality({d \in cuts : d < c}) = k - 1
  IN  [k \in 1..(Cardinality(cuts) + 1) |->
         SubSeq(s, Cut(k - 1) + 1, Cut(k) - 1)]

\* any(word in s.lower() for word in words)
ContainsAny(s, words) ==
  \E w \in words : Contains(Lower(s), w)

StripAll(pieces) ==
  [i \in 1..Len(pieces) |-> Strip(pieces[i])]

IsItemLine(line) ==
  line # <<>> /\ ContainsAny(line, ItemLineWords)

IsItemSentence(sentence) ==
  ContainsAny(sentence, ItemSentenceWords)

\* the first n elements, or all of them: items[:n]
Truncate(items, n) ==
  SubSeq(items, 1, IF Len(items) < n THEN Len(items) ELSE n)

extract_items_from_analysis(analysis_text) ==
  LET lines == StripAll(SplitOn(analysis_text, {"\n"}))
      items == SelectSeq(lines, IsItemLine)
      sentences == StripAll(SplitOn(analysis_text, {".", "!", "?"}))
  IN  Truncate(IF items = <<>> THEN SelectSeq(sentences, IsItemSentence)
                               ELSE items,
               10)

\* the value of the first entry of item_values, from k on, that has a
\* keyword in the item; 500 when none has
RECURSIVE ItemValueFrom(_, _)
ItemValueFrom(item_lower, k) ==
  IF k > Len(item_values)
    THEN 500
    ELSE IF \E w \in item_values[k].keywords : Contains(item_lower, w)
           THEN item_values[k].value
           ELSE ItemValueFrom(item_lower, k + 1)

get_item_value(item) ==
  ItemValueFrom(Lower(item), 1)

RECURSIVE SumItemValues(_, _)
SumItemValues(items, k) ==
  IF k = 0 THEN 0 ELSE SumItemValues(items, k - 1) + get_item_value(items[k])

Min2(a, b) ==
  IF a < b THEN a ELSE b

Max2(a, b) ==
  IF a > b THEN a ELSE b

\* mutant: the amount is not raised to 0
calculate_claim_amount_unclamped(cd, pd) ==
  LET base_amount == 1000
      items_value == SumItemValues(cd.items, Len(cd.items))
      max_claim == Min2(items_value + base_amount, pd.coverage_amount)
  IN  max_claim - pd.coverage_details.deductible

calculate_claim_amount(cd, pd) ==
  LET base_amount == 1000
      items_value == SumItemValues(cd.items, Len(cd.items))
      max_claim == Min2(items_value + base_amount, pd.coverage_amount)
  IN  Max2(0, max_claim - pd.coverage_details.deductible)

\* the fixed policy record _get_policy_data returns: "2025-01-01" is day 2
get_policy_data(number) ==
  [id |-> "policy_123", policy_number |-> number,
   coverage_amount |-> 250000, start_date |-> Date(2),
   coverage_details |-> [deductible |-> 1000]]

\* the fixed history record _get_customer_history returns
get_customer_history ==
  [total_claims |-> 2, recent_claims |-> 1]

get_next_steps(status) ==
  IF status = "Approved"
    THEN <<"Claim has been approved",
           "Payment will be processed within 5-7 business days",
           "You will receive an email confirmation once payment is sent",
           "Contact customer support if you have any questions">>
    ELSE IF status = "Under Review"
           THEN <<"Claim requires additional review",
                  "A claims adjuster will contact you within 48 hours",
                  "Please have any supporting documentation ready",
                  "You may be asked to provide additional information">>
           ELSE <<"Claim has been rejected",
                  "Please review the rejection reasons provided",
                  "You may appeal this decision within 30 days",
                  "Contact customer support for assistance with the appeal process">>

\* f"CLM-{date}-{hash(policy_number + claim_description) % 10000:04d}": the
\* hash is kept as the string it is taken of
ClaimNumber(number, description, today) ==
  [date |-> today, hashed |-> number \o description]

\* _format_claim_assessment: the values the text shows, in the order it
\* shows them; an empty indicator list is shown as "None detected".  The
\* image summary at the end of the text is left out.
format_claim_assessment(assessment) ==
  [claim_number |-> assessment.claim_number,
   policy_number |-> assessment.policy_number,
   status |-> assessment.status,
   estimated_payout |-> assessment.claim_amount,
   fraud_detection_score |-> assessment.fraud_score,
   fraud_indicators |-> IF assessment.fraud_indicators = <<>>
                          THEN <<"None detected">>
                          ELSE assessment.fraud_indicators,
   next_steps |-> assessment.next_steps]

----------------------------------------------------------------------------
(* The record store (MockSupabaseClient) and the calls process_claim makes *)
(* into it.  A store call either raises (the store is unreachable) or      *)
(* appends.                                                                *)

EmptyTables ==
  [policies |-> <<>>, claims |-> <<>>, agent_activities |-> <<>>,
   escalations |-> <<>>]

\* claim_data["id"] = str(len(self.tables["claims"]) + 1), then append
create_claim(tbls, record) ==
  [tbls EXCEPT !.claims =
     Append(@, [id |-> Len(@) + 1, claim_number |-> record.claim_number,
                policy_id |-> record.policy_id, status |-> record.status,
                amount_requested |-> record.amount_requested,
                amount_approved |-> record.amount_approved,
                fraud_score |-> record.fraud_score])]

\* mutant: every activity is recorded as a success
log_agent_activity_as_success(tbls, log_data) ==
  [tbls EXCEPT !.agent_activities =
     Append(@, [id |-> Len(@) + 1, agent_type |-> log_data.agent_type,
                action |-> log_data.action, output |-> log_data.output,
                success |-> TRUE])]

\* log_data["id"] = str(len(self.tables["agent_activities"]) + 1), then append
log_agent_activity(tbls, log_data) ==
  [tbls EXCEPT !.agent_activities =
     Append(@, [id |-> Len(@) + 1, agent_type |-> log_data.agent_type,
                action |-> log_data.action, output |-> log_data.output,
                success |-> log_data.success])]

\* mutant: create_claim is not wrapped in its own try
SaveClaimToDatabase_unguarded(tbls, record, store_raises) ==
  IF store_raises
    THEN [tables |-> tbls, raised |-> TRUE]
    ELSE [tables |-> create_claim(tbls, record), raised |-> FALSE]

\* the try block of process_claim around create_claim: a raising store is
\* printed and passed over
SaveClaimToDatabase(tbls, record, store_raises) ==
  IF store_raises
    THEN [tables |-> tbls, raised |-> FALSE]
    ELSE [tables |-> create_claim(tbls, record), raised |-> FALSE]

\* mutant: the store call of _log_agent_activity is not wrapped in try
LogAgentActivity_unguarded(tbls, output, success, store_raises) ==
  IF store_raises
    THEN [tables |-> tbls, raised |-> TRUE]
    ELSE [tables |->
            log_agent_activity(tbls, [agent_type |-> "Claims Processor",
                                      action |-> "Claim Processing",
                                      output |-> output, success |-> success]),
          raised |-> FALSE]

\* ClaimsProcessor._log_agent_activity: a raising store is printed and
\* passed over
LogAgentActivity(tbls, output, success, store_raises) ==
  IF store_raises
    THEN [tables |-> tbls, raised |-> FALSE]
    ELSE [tables |->
            log_agent_activity(tbls, [agent_type |-> "Claims Processor",
                                      action |-> "Claim Processing",
                                      output |-> output, success |-> success]),
          raised |-> FALSE]

----------------------------------------------------------------------------
(* CustomerAssistant._categorize_query: the keyword table in the order it  *)
(* is declared, the score of a category and the category returned.         *)

\* the table `categories`: a Python dict keeps the order of declaration
categories ==
  <<
    [name |-> "policy_info",
     keywords |-> <<
         <<"p","o","l","i","c","y">>,
         <<"c","o","v","e","r","a","g","e">>,
         <<"c","o","v","e","r","e","d">>,
         <<"i","n","s","u","r","e","d">>,
         <<"p","r","e","m","i","u","m">>,
         <<"d","e","d","u","c","t","i","b","l","e">>>>],
    [name |-> "claim_status",
     keywords |-> <<
         <<"c","l","a","i","m">>,
         <<"s","t","a","t","u","s">>,
         <<"p","a","y","m","e","n","t">>,
         <<"r","e","i","m","b","u","r","s","e","m","e","n","t">>,
         <<"a","p","p","r","o","v","e","d">>,
         <<"d","e","n","i","e","d">>,
         <<"p","r","o","c","e","s","s">>>>],
    [name |-> "billing",
     keywords |-> <<
         <<"b","i","l","l">>,
         <<"p","a","y","m","e","n","t">>,
         <<"p","a","y">>,
         <<"i","n","v","o","i","c","e">>,
         <<"c","h","a","r","g","e">>,
         <<"f","e","e">>,
         <<"c","o","s","t">>,
         <<"p","r","i","c","e">>,
         <<"e","x","p","e","n","s","i","v","e">>>>],
    [name |-> "technical_support",
     keywords |-> <<
         <<"w","e","b","s","i","t","e">>,
         <<"a","p","p">>,
         <<"l","o","g","i","n">>,
         <<"p","a","s","s","w","o","r","d">>,
         <<"r","e","s","e","t">>,
         <<"a","c","c","o","u","n","t">>,
         <<"a","c","c","e","s","s">>,
         <<"e","r","r","o","r">>>>],
    [name |-> "coverage_question",
     keywords |-> <<
         <<"c","o","v","e","r">>,
         <<"c","o","v","e","r","e","d">>,
         <<"i","n","c","l","u","d","e">>,
         <<"p","r","o","t","e","c","t">>,
         <<"d","a","m","a","g","e">>,
         <<"l","o","s","s">>,
         <<"t","h","e","f","t">>,
         <<"a","c","c","i","d","e","n","t">>>>],
    [name |-> "complaint",
     keywords |-> <<
         <<"u","n","h","a","p","p","y">>,
         <<"d","i","s","s","a","t","i","s","f","i","e","d">>,
         <<"d","i","s","a","p","p","o","i","n","t","e","d">>,
         <<"p","r","o","b","l","e","m">>,
         <<"i","s","s","u","e">>,
         <<"w","r","o","n","g">>,
         <<"m","i","s","t","a","k","e">>,
         <<"e","r","r","o","r">>,
         <<"c","o","m","p","l","a","i","n","t">>>>]>>

\* mutant: a category scores 1 when any of its keywords is present
CategoryScore_any(query_lower, c) ==
  IF \E k \in 1..Len(categories[c].keywords) :
       Contains(query_lower, categories[c].keywords[k])
    THEN 1
    ELSE 0

\* category_scores[category]: one for each keyword present in the query
CategoryScore(query_lower, c) ==
  Cardinality({k \in 1..Len(categories[c].keywords) :
                 Contains(query_lower, categories[c].keywords[k])})

\* max(category_scores.values())
MaxCategoryScore(query_lower) ==
  CHOOSE m \in {CategoryScore(query_lower, c) : c \in 1..Len(categories)} :
    \A c \in 1..Len(categories) : CategoryScore(query_lower, c) <= m

\* [c for c, s in category_scores.items() if s == max_score], as indices
MaxCategories(query_lower) ==
  SelectSeq([c \in 1..Len(categories) |-> c],
            LAMBDA c : CategoryScore(query_lower, c) =
                         MaxCategoryScore(query_lower))

\* mutant: the last of the categories with the highest score
PickCategory_last(max_categories) ==
  max_categories[Len(max_categories)]

\* max_categories[0]
PickCategory(max_categories) ==
  max_categories[1]

categorize_query(q) ==
  LET query_lower == Lower(q)
  IN  IF MaxCategoryScore(query_lower) = 0
        THEN "general_inquiry"
        ELSE categories[PickCategory(MaxCategories(query_lower))].name

----------------------------------------------------------------------------
(* Python re, as far as the patterns of the document analyzer use it.  A   *)
(* pattern is a sequence of parts; a part is a record with an op field.    *)
(* Matching is backtracking: Match lists the ways a part can match from a  *)
(* position in the order Python tries them (greedy repeats longest first,  *)
(* alternatives left to right), and FirstWay takes the first way of each   *)
(* part for which the rest of the pattern matches.                         *)

UpperLetters ==
  DOMAIN UpperToLower

LowerLetters ==
  {UpperToLower[c] : c \in UpperLetters}

Letters ==
  UpperLetters \cup LowerLetters

Digits ==
  {"0", "1", "2", "3", "4", "5", "6", "7", "8", "9"}

\* \s, for the whitespace the texts hold
Spaces ==
  {" ", "\t", "\n"}

\* one character of a set
Chars(set) ==
  [op |-> "chars", set |-> set]

\* set{min,max} greedy; max = -1 is no upper limit
Run(set, min, max) ==
  [op |-> "run", set |-> set, min |-> min, max |-> max]

\* (?:of){min,max} greedy; max = -1 is no upper limit
Rep(of, min, max) ==
  [op |-> "rep", of |-> of, min |-> min, max |-> max]

Cat(parts) ==
  [op |-> "seq", parts |-> parts]

Alt(alts) ==
  [op |-> "alt", alts |-> alts]

\* capturing group number n
Group(n, of) ==
  [op |-> "group", n |-> n, of |-> of]

\* $ without re.MULTILINE
AtEnd ==
  [op |-> "end"]

\* a literal word, given in small letters, under re.IGNORECASE
Lit(word) ==
  [op |-> "lit", word |-> word]

\* no group has captured
NoCaptures ==
  <<<<>>, <<>>>>

\* the length of the longest run of characters of set from position i,
\* at most max of them when max >= 0
RunLength(set, max, s, i) ==
  LET limit == IF max >= 0 /\ i + max - 1 < Len(s) THEN i + max - 1 ELSE Len(s)
      stops == {j \in i..limit : s[j] \notin set}
  IN  IF stops = {}
        THEN limit - i + 1
        ELSE (CHOOSE j \in stops : \A k \in stops : j <= k) - i

RECURSIVE Match(_, _, _, _)
RECURSIVE MatchEach(_, _, _, _)
RECURSIVE MatchParts(_, _, _, _)
RECURSIVE MatchAlts(_, _, _, _, _)
RECURSIVE MatchRep(_, _, _, _, _, _)
RECURSIVE MatchRepEach(_, _, _, _, _, _)

\* the ways part re matches s from position i, as <<[pos, caps]>>: pos is
\* the position after the match, caps the captures so far
Match(re, s, i, caps) ==
  CASE re.op = "chars" ->
         IF i <= Len(s) /\ s[i] \in re.set
           THEN <<[pos |-> i + 1, caps |-> caps]>>
           ELSE <<>>
    [] re.op = "lit" ->
         IF /\ i + Len(re.word) - 1 <= Len(s)
            /\ Lower(SubSeq(s, i, i + Len(re.word) - 1)) = re.word
           THEN <<[pos |-> i + Len(re.word), caps |-> caps]>>
           ELSE <<>>
    [] re.op = "run" ->
         LET longest == RunLength(re.set, re.max, s, i)
         IN  IF longest < re.min
               THEN <<>>
               ELSE [k \in 1..(longest - re.min + 1) |->
                       [pos |-> i + longest - k + 1, caps |-> caps]]
    [] re.op = "rep" -> MatchRep(re.of, re.min, re.max, s, i, caps)
    [] re.op = "seq" ->
         MatchParts(re.parts, 1, s, <<[pos |-> i, caps |-> caps]>>)
    [] re.op = "alt" -> MatchAlts(re.alts, 1, s, i, caps)
    [] re.op = "group" ->
         LET inner == Match(re.of, s, i, caps)
         IN  [k \in 1..Len(inner) |->
                [pos |-> inner[k].pos,
                 caps |-> [inner[k].caps EXCEPT
                             ![re.n] = SubSeq(s, i, inner[k].pos - 1)]]]
    [] re.op = "end" ->
         IF i = Len(s) + 1 \/ (i = Len(s) /\ s[i] = "\n")
           THEN <<[pos |-> i, caps |-> caps]>>
           ELSE <<>>

\* the ways re matches from each of the ways, from the j-th on
MatchEach(re, s, ways, j) ==
  IF j > Len(ways)
    THEN <<>>
    ELSE Match(re, s, ways[j].pos, ways[j].caps) \o
         MatchEach(re, s, ways, j + 1)

\* the ways the parts from the k-th on match after the ways
MatchParts(parts, k, s, ways) ==
  IF k > Len(parts)
    THEN ways
    ELSE MatchParts(parts, k + 1, s, MatchEach(parts[k], s, ways, 1))

MatchAlts(alts, k, s, i, caps) ==
  IF k > Len(alts)
    THEN <<>>
    ELSE Match(alts[k], s, i, caps) \o MatchAlts(alts, k + 1, s, i, caps)

\* one more repetition first, then none
MatchRep(of, min, max, s, i, caps) ==
  LET once == IF max = 0
                THEN <<>>
                ELSE SelectSeq(Match(of, s, i, caps), LAMBDA w : w.pos > i)
  IN  MatchRepEach(of, IF min > 0 THEN min - 1 ELSE 0,
                   IF max > 0 THEN max - 1 ELSE max, s, once, 1) \o
      (IF min = 0 THEN <<[pos |-> i, caps |-> caps]>> ELSE <<>>)

MatchRepEach(of, min, max, s, ways, j) ==
  IF j > Len(ways)
    THEN <<>>
    ELSE MatchRep(of, min, max, s, ways[j].pos, ways[j].caps) \o
         MatchRepEach(of, min, max, s, ways, j + 1)

NoMatch ==
  [ok |-> FALSE, pos |-> 0, caps |-> NoCaptures]

RECURSIVE FirstWay(_, _, _, _, _)
RECURSIVE TryWays(_, _, _, _, _)

\* the match of the parts of a pattern, from the k-th on, that
\* backtracking finds first from position i
FirstWay(parts, k, s, i, caps) ==
  IF k > Len(parts)
    THEN [ok |-> TRUE, pos |-> i, caps |-> caps]
    ELSE TryWays(Match(parts[k], s, i, caps), 1, parts, k, s)

TryWays(ways, j, parts, k, s) ==
  IF j > Len(ways)
    THEN NoMatch
    ELSE LET rest == FirstWay(parts, k + 1, s, ways[j].pos, ways[j].caps)
         IN  IF rest.ok THEN rest ELSE TryWays(ways, j + 1, parts, k, s)

\* the positions from which the pattern matches, from position `from` on
MatchStarts(pattern, s, from) ==
  {i \in from..(Len(s) + 1) : FirstWay(pattern, 1, s, i, NoCaptures).ok}

\* re.search(pattern, s) is not None
re_search(pattern, s) ==
  MatchStarts(pattern, s, 1) # {}

\* re.findall(pattern, s): the captures of the matches, left to right, a
\* match starting where the one before it ended
RECURSIVE re_findall(_, _, _)
re_findall(pattern, s, from) ==
  LET starts == MatchStarts(pattern, s, from)
  IN  IF starts = {}
        THEN <<>>
        ELSE LET i == CHOOSE j \in starts : \A k \in starts : j <= k
                 found == FirstWay(pattern, 1, s, i, NoCaptures)
             IN  <<found.caps>> \o
                 re_findall(pattern, s,
                            IF found.pos > i THEN found.pos ELSE i + 1)

----------------------------------------------------------------------------
(* DocAnalyzerTool: the pattern library, the entity patterns and           *)
(* analyze_document.  Texts, entity values, keys, values and the summary   *)
(* are character sequences; a document type is named by a string.          *)

\* self.document_patterns, in the order of declaration; every pattern is
\* searched with re.IGNORECASE
document_patterns ==
  <<
    [type |-> "policy",
     patterns |-> <<
         <<Lit(<<"p","o","l","i","c","y">>), Run(Spaces, 1, -1),
           Lit(<<"n","u","m","b","e","r">>)>>,
         <<Lit(<<"c","o","v","e","r","a","g","e">>), Run(Spaces, 1, -1),
           Lit(<<"a","m","o","u","n","t">>)>>,
         <<Lit(<<"p","r","e","m","i","u","m">>)>>,
         <<Lit(<<"e","f","f","e","c","t","i","v","e">>), Run(Spaces, 1, -1),
           Lit(<<"d","a","t","e">>)>>,
         <<Lit(<<"e","x","p","i","r","a","t","i","o","n">>), Run(Spaces, 1, -1),
           Lit(<<"d","a","t","e">>)>>>>],
    [type |-> "claim",
     patterns |-> <<
         <<Lit(<<"c","l","a","i","m">>), Run(Spaces, 1, -1),
           Lit(<<"n","u","m","b","e","r">>)>>,
         <<Lit(<<"i","n","c","i","d","e","n","t">>), Run(Spaces, 1, -1),
           Lit(<<"d","a","t","e">>)>>,
         <<Lit(<<"d","a","m","a","g","e">>), Run(Spaces, 1, -1),
           Lit(<<"d","e","s","c","r","i","p","t","i","o","n">>)>>,
         <<Lit(<<"e","s","t","i","m","a","t","e","d">>), Run(Spaces, 1, -1),
           Lit(<<"l","o","s","s">>)>>>>],
    [type |-> "invoice",
     patterns |-> <<
         <<Lit(<<"i","n","v","o","i","c","e">>), Run(Spaces, 1, -1),
           Lit(<<"n","u","m","b","e","r">>)>>,
         <<Lit(<<"a","m","o","u","n","t">>), Run(Spaces, 1, -1),
           Lit(<<"d","u","e">>)>>,
         <<Lit(<<"p","a","y","m","e","n","t">>), Run(Spaces, 1, -1),
           Lit(<<"d","a","t","e">>)>>,
         <<Lit(<<"s","e","r","v","i","c","e">>), Run(Spaces, 1, -1),
           Lit(<<"d","e","s","c","r","i","p","t","i","o","n">>)>>>>],
    [type |-> "receipt",
     patterns |-> <<
         <<Lit(<<"r","e","c","e","i","p","t">>), Run(Spaces, 1, -1),
           Lit(<<"n","u","m","b","e","r">>)>>,
         <<Lit(<<"p","u","r","c","h","a","s","e">>), Run(Spaces, 1, -1),
           Lit(<<"d","a","t","e">>)>>,
         <<Lit(<<"i","t","e","m">>), Run(Spaces, 1, -1),
           Lit(<<"d","e","s","c","r","i","p","t","i","o","n">>)>>,
         <<Lit(<<"a","m","o","u","n","t">>), Run(Spaces, 1, -1),
           Lit(<<"p","a","i","d">>)>>>>]>>

\* [:.\s]*
Separators ==
  Run({":", "."} \cup Spaces, 0, -1)

\* (?:\n|,|\.|$)
FieldEnd ==
  Alt(<<Chars({"\n"}), Chars({","}), Chars({"."}), AtEnd>>)

\* \d{1,2}[/-]\d{1,2}[/-]\d{2,4}|\d{4}[/-]\d{1,2}[/-]\d{1,2}
DateForms ==
  Alt(<<Cat(<<Run(Digits, 1, 2), Chars({"/", "-"}), Run(Digits, 1, 2),
              Chars({"/", "-"}), Run(Digits, 2, 4)>>),
        Cat(<<Run(Digits, 4, 4), Chars({"/", "-"}), Run(Digits, 1, 2),
              Chars({"/", "-"}), Run(Digits, 1, 2)>>)>>)

\* \d+(?:,\d+)*(?:\.\d+)?
AmountForm ==
  Cat(<<Run(Digits, 1, -1),
        Rep(Cat(<<Chars({","}), Run(Digits, 1, -1)>>), 0, -1),
        Rep(Cat(<<Chars({"."}), Run(Digits, 1, -1)>>), 0, 1)>>)

\* [a-zA-Z0-9._%+-]+@[a-zA-Z0-9.-]+\.[a-zA-Z]{2,}
EmailForm ==
  Cat(<<Run(Letters \cup Digits \cup {".", "_", "%", "+", "-"}, 1, -1),
        Chars({"@"}),
        Run(Letters \cup Digits \cup {".", "-"}, 1, -1),
        Chars({"."}),
        Run(Letters, 2, -1)>>)

\* self.entity_patterns, in the order of declaration; every pattern is
\* used with re.IGNORECASE, under which [A-Z] holds the small letters too
entity_patterns ==
  <<[name |-> "policy_number",
     pattern |-> <<Lit(<<"p","o","l","i","c","y">>), Run(Spaces, 1, -1),
                   Alt(<<Lit(<<"n","u","m","b","e","r">>), Chars({"#"})>>),
                   Separators,
                   Group(1, Run(Letters \cup Digits \cup {"-"}, 1, -1))>>],
    [name |-> "claim_number",
     pattern |-> <<Lit(<<"c","l","a","i","m">>), Run(Spaces, 1, -1),
                   Alt(<<Lit(<<"n","u","m","b","e","r">>), Chars({"#"})>>),
                   Separators,
                   Group(1, Run(Letters \cup Digits \cup {"-"}, 1, -1))>>],
    [name |-> "date",
     pattern |-> <<Alt(<<Lit(<<"d","a","t","e">>),
                         Lit(<<"e","f","f","e","c","t","i","v","e">>),
                         Lit(<<"e","x","p","i","r","a","t","i","o","n">>)>>),
                   Separators,
                   Group(1, DateForms)>>],
    [name |-> "amount",
     pattern |-> <<Alt(<<Lit(<<"a","m","o","u","n","t">>),
                         Lit(<<"c","o","v","e","r","a","g","e">>),
                         Lit(<<"p","r","e","m","i","u","m">>),
                         Lit(<<"p","a","i","d">>),
                         Lit(<<"d","u","e">>)>>),
                   Separators,
                   Run({"$"}, 0, 1),
                   Group(1, AmountForm)>>],
    [name |-> "name",
     pattern |-> <<Alt(<<Lit(<<"n","a","m","e">>),
                         Lit(<<"i","n","s","u","r","e","d">>),
                         Lit(<<"p","o","l","i","c","y","h","o","l","d","e","r">>)>>),
                   Separators,
                   Group(1, Run(Letters \cup Spaces, 1, -1)),
                   FieldEnd>>],
    [name |-> "address",
     pattern |-> <<Alt(<<Lit(<<"a","d","d","r","e","s","s">>),
                         Lit(<<"l","o","c","a","t","i","o","n">>)>>),
                   Separators,
                   Group(1, Run(Letters \cup Digits \cup Spaces \cup {","},
                                1, -1)),
                   FieldEnd>>],
    [name |-> "phone",
     pattern |-> <<Alt(<<Lit(<<"p","h","o","n","e">>),
                         Lit(<<"t","e","l">>),
                         Lit(<<"t","e","l","e","p","h","o","n","e">>)>>),
                   Separators,
                   Group(1, Cat(<<Run({"+"}, 0, 1),
                                  Run(Digits \cup Spaces \cup {"(", ")", "-"},
                                      10, -1)>>))>>],
    [name |-> "email",
     pattern |-> <<Alt(<<Lit(<<"e","m","a","i","l">>),
                         Lit(<<"e","-","m","a","i","l">>)>>),
                   Separators,
                   Group(1, EmailForm)>>]>>

\* ([A-Za-z\s]+)[:.-]\s*([A-Za-z0-9\s,.$-]+)(?:\n|$), without re.IGNORECASE
kv_pattern ==
  <<Group(1, Run(Letters \cup Spaces, 1, -1)),
    Chars({":", ".", "-"}),
    Run(Spaces, 0, -1),
    Group(2, Run(Letters \cup Digits \cup Spaces \cup {",", ".", "$", "-"},
                 1, -1)),
    Alt(<<Chars({"\n"}), AtEnd>>)>>

\* 'This appears to be a '
TxtThisAppears ==
  <<"T","h","i","s"," ","a","p","p","e","a","r","s"," ","t","o"," ","b","e"," ","a"," ">>

\* ' document. '
TxtDocument ==
  <<" ","d","o","c","u","m","e","n","t","."," ">>

\* 'Policy number: '
TxtPolicyNumber ==
  <<"P","o","l","i","c","y"," ","n","u","m","b","e","r",":"," ">>

\* 'Policyholder: '
TxtPolicyholder ==
  <<"P","o","l","i","c","y","h","o","l","d","e","r",":"," ">>

\* 'Coverage amount: $'
TxtCoverageAmount ==
  <<"C","o","v","e","r","a","g","e"," ","a","m","o","u","n","t",":"," ","$">>

\* 'Effective date: '
TxtEffectiveDate ==
  <<"E","f","f","e","c","t","i","v","e"," ","d","a","t","e",":"," ">>

\* 'Claim number: '
TxtClaimNumber ==
  <<"C","l","a","i","m"," ","n","u","m","b","e","r",":"," ">>

\* 'Incident date: '
TxtIncidentDate ==
  <<"I","n","c","i","d","e","n","t"," ","d","a","t","e",":"," ">>

\* 'Estimated loss: $'
TxtEstimatedLoss ==
  <<"E","s","t","i","m","a","t","e","d"," ","l","o","s","s",":"," ","$">>

\* 'Amount: $'
TxtAmount ==
  <<"A","m","o","u","n","t",":"," ","$">>

\* 'Date: '
TxtDate ==
  <<"D","a","t","e",":"," ">>

\* 'Additional information: '
TxtAdditional ==
  <<"A","d","d","i","t","i","o","n","a","l"," ","i","n","f","o","r","m","a","t","i","o","n",":"," ">>

\* '. '
TxtEndFact ==
  <<"."," ">>

\* ': '
TxtColon ==
  <<":"," ">>

\* ', '
TxtComma ==
  <<","," ">>

\* '.'
TxtStop ==
  <<".">>

\* the keys the summary does not repeat
SummarySkippedKeys ==
  {<<"p","o","l","i","c","y"," ","n","u","m","b","e","r">>,
   <<"c","l","a","i","m"," ","n","u","m","b","e","r">>,
   <<"d","a","t","e">>,
   <<"a","m","o","u","n","t">>,
   <<"n","a","m","e">>}

\* the characters of the name of a document type
DocTypeChars ==
  [policy |-> <<"p","o","l","i","c","y">>,
   claim |-> <<"c","l","a","i","m">>,
   invoice |-> <<"i","n","v","o","i","c","e">>,
   receipt |-> <<"r","e","c","e","i","p","t">>,
   unknown |-> <<"u","n","k","n","o","w","n">>]

\* the number of patterns of the t-th document type that are found
TypeScore(doc, t) ==
  Cardinality({p \in 1..Len(document_patterns[t].patterns) :
                 re_search(document_patterns[t].patterns[p], doc)})

\* type_scores, in the order of document_patterns
TypeScores(doc) ==
  [t \in 1..Len(document_patterns) |-> TypeScore(doc, t)]

\* max(type_scores.values())
MaxTypeScore(type_scores) ==
  CHOOSE m \in {type_scores[t] : t \in 1..Len(type_scores)} :
    \A t \in 1..Len(type_scores) : type_scores[t] <= m

\* [t for t, s in type_scores.items() if s == max_score], as indices
MaxTypes(type_scores) ==
  LET max_score == MaxTypeScore(type_scores)
  IN  SelectSeq([t \in 1..Len(type_scores) |-> t],
                LAMBDA t : type_scores[t] = max_score)

\* mutant: the last of the types with the highest score
PickType_last(max_types) ==
  max_types[Len(max_types)]

\* max_types[0]
PickType(max_types) ==
  max_types[1]

identify_document_type(doc) ==
  LET type_scores == TypeScores(doc)
  IN  IF MaxTypeScore(type_scores) = 0
        THEN "unknown"
        ELSE document_patterns[PickType(MaxTypes(type_scores))].type

\* entities[entity_name] = matches[0].strip() for the patterns that match
extract_entities(doc) ==
  LET matches == [e \in 1..Len(entity_patterns) |->
                    re_findall(entity_patterns[e].pattern, doc, 1)]
      found == {e \in 1..Len(entity_patterns) : matches[e] # <<>>}
      IndexOf(n) == CHOOSE e \in found : entity_patterns[e].name = n
  IN  [n \in {entity_patterns[e].name : e \in found} |->
         Strip(matches[IndexOf(n)][1][1])]

\* key_values[key] = value on a dictionary kept as the sequence of its
\* entries in insertion order: a key that is present keeps its place and
\* takes the new value
SetKey(key_values, key, value) ==
  IF \E k \in 1..Len(key_values) : key_values[k].key = key
    THEN [k \in 1..Len(key_values) |->
            IF key_values[k].key = key
              THEN [key |-> key, value |-> value]
              ELSE key_values[k]]
    ELSE Append(key_values, [key |-> key, value |-> value])

\* the loop of _extract_key_values over the matches up to the k-th
RECURSIVE KeyValuesOf(_, _)
KeyValuesOf(matches, k) ==
  IF k = 0
    THEN <<>>
    ELSE LET key == Lower(Strip(matches[k][1]))
             value == Strip(matches[k][2])
             before == KeyValuesOf(matches, k - 1)
         IN  IF key # <<>> /\ value # <<>>
               THEN SetKey(before, key, value)
               ELSE before

extract_key_values(doc) ==
  LET matches == re_findall(kv_pattern, doc, 1)
  IN  KeyValuesOf(matches, Len(matches))

UpperChar(c) ==
  IF c \in LowerLetters
    THEN CHOOSE u \in UpperLetters : UpperToLower[u] = c
    ELSE c

\* str.upper()
Upper(s) ==
  [i \in 1..Len(s) |-> UpperChar(s[i])]

\* s.rstrip(chars)
RECURSIVE RStripChars(_, _)
RStripChars(s, chars) ==
  IF s # <<>> /\ s[Len(s)] \in chars
    THEN RStripChars(SubSeq(s, 1, Len(s) - 1), chars)
    ELSE s

\* the sentence of the summary for an entity that was found
SummaryFact(label, entities, name) ==
  IF name \in DOMAIN entities
    THEN label \o entities[name] \o TxtEndFact
    ELSE <<>>

\* the entries "key: value, " of the keys the summary does not skip
RECURSIVE SummaryEntries(_, _)
SummaryEntries(key_values, k) ==
  IF k = 0
    THEN <<>>
    ELSE SummaryEntries(key_values, k - 1) \o
         (IF key_values[k].key \notin SummarySkippedKeys
            THEN key_values[k].key \o TxtColon \o key_values[k].value \o
                 TxtComma
            ELSE <<>>)

generate_summary(doc_type, entities, key_values) ==
  LET head == TxtThisAppears \o Upper(DocTypeChars[doc_type]) \o TxtDocument
      facts ==
        IF doc_type = "policy"
          THEN SummaryFact(TxtPolicyNumber, entities, "policy_number") \o
               SummaryFact(TxtPolicyholder, entities, "name") \o
               SummaryFact(TxtCoverageAmount, entities, "amount") \o
               SummaryFact(TxtEffectiveDate, entities, "date")
          ELSE IF doc_type = "claim"
                 THEN SummaryFact(TxtClaimNumber, entities, "claim_number") \o
                      SummaryFact(TxtIncidentDate, entities, "date") \o
                      SummaryFact(TxtEstimatedLoss, entities, "amount")
                 ELSE IF doc_type \in {"invoice", "receipt"}
                        THEN SummaryFact(TxtAmount, entities, "amount") \o
                             SummaryFact(TxtDate, entities, "date")
                        ELSE <<>>
  IN  IF key_values # <<>>
        THEN RStripChars(head \o facts \o TxtAdditional \o
                           SummaryEntries(key_values, Len(key_values)),
                         {",", " "}) \o TxtStop
        ELSE head \o facts

\* a document text that is a string
TextOf(chars) ==
  [is_str |-> TRUE, chars |-> chars]

\* a document text that is not a string (None)
NoText ==
  [is_str |-> FALSE, chars |-> <<>>]

\* analyze_document: re.search raises TypeError on a text that is not a
\* string and nothing in analyze_document catches it
analyze_document(input) ==
  IF ~input.is_str
    THEN [raised |-> TRUE,
          error |-> "expected string or bytes-like object, got 'NoneType'"]
    ELSE LET doc == input.chars
             doc_type == identify_document_type(doc)
             entities == extract_entities(doc)
             key_values == extract_key_values(doc)
         IN  [raised |-> FALSE,
              document_type |-> doc_type,
              entities |-> entities,
              key_values |-> key_values,
              summary |-> generate_summary(doc_type, entities, key_values)]

\* the document that json.dumps(results) encodes, or the error document of
\* the except branch
ToolDocument(results) ==
  IF results.raised
    THEN [error |-> results.error]
    ELSE [document_type |-> results.document_type,
          entities |-> results.entities,
          key_values |-> results.key_values,
          summary |-> results.summary]

\* _document_analysis_tool: the document that the JSON text it returns
\* encodes; json.dumps keeps the keys and their order
document_analysis_tool(input) ==
  ToolDocument(analyze_document(input))

----------------------------------------------------------------------------
(* process_claim of the UI module (the simple claim path): the status      *)
(* chosen from the fraud score, in hundredths.                             *)

\* mutant: a score of exactly 0.5 is put under review
SimpleClaimStatus_inclusive(fraud_score) ==
  IF fraud_score >= 50 THEN "Under Review" ELSE "Approved"

\* claim_status = "Approved"; if fraud_score > 0.5: "Under Review"
SimpleClaimStatus(fraud_score) ==
  IF fraud_score > 50 THEN "Under Review" ELSE "Approved"

----------------------------------------------------------------------------
(* MockSupabaseClient as the agents share it: __new__ hands every agent    *)
(* the same instance, and create_policy, create_claim, log_agent_activity  *)
(* and create_escalation each give the record the id len(table) + 1 in     *)
(* one statement and append it to the table in a later one.  A record is   *)
(* kept by the serial number of the call that handed it over.              *)

\* the agents that hold the instance
Agents ==
  {"claims_processor", "customer_service"}

\* the table each creating method appends to
StoreMethods ==
  [create_policy |-> "policies", create_claim |-> "claims",
   log_agent_activity |-> "agent_activities",
   create_escalation |-> "escalations"]

\* self.tables after _initialize without files to load
EmptyStore ==
  [t \in {StoreMethods[m] : m \in DOMAIN StoreMethods} |-> <<>>]

\* an agent that is not inside a store call
NoCall ==
  [method |-> "", record |-> [id |-> 0, call |-> 0]]

\* record["id"] = str(len(self.tables[table]) + 1)
AssignId(tbls, method, record) ==
  [record EXCEPT !.id = Len(tbls[StoreMethods[method]]) + 1]

\* self.tables[table].append(record)
AppendRecord(tbls, method, record) ==
  [tbls EXCEPT ![StoreMethods[method]] = Append(@, record)]

----------------------------------------------------------------------------
(* The variables of an entry point that is not the one being driven.       *)

NoSentimentResult ==
  [sentiment |-> "", sentiment_score |-> Frac(0, 1), positive_count |-> 0,
   negative_count |-> 0, neutral_count |-> 0]

NoImageAnalysis ==
  [raw_analysis |-> <<>>]

NoClaimAssessment ==
  [claim_number |-> [date |-> 0, hashed |-> <<>>], policy_number |-> <<>>,
   status |-> "", fraud_score |-> 0, fraud_indicators |-> <<>>,
   claim_amount |-> 0, items_claimed |-> <<>>, next_steps |-> <<>>]

\* no result has been returned
NoResult ==
  [success |-> FALSE, error |-> "", pending |-> TRUE]

WorkflowIdle ==
  /\ fault = "none"
  /\ claim_description = <<>>
  /\ raw_analysis = <<>>
  /\ image_analysis = NoImageAnalysis
  /\ claim_amount = 0
  /\ claim_assessment = NoClaimAssessment
  /\ tables = EmptyTables
  /\ store_calls = <<>>
  /\ result = NoResult
  /\ error = ""

FraudIdle ==
  /\ now = 0
  /\ claim_data = [description |-> <<>>, report_date |-> BadDate,
                   items |-> <<>>, police_report |-> FALSE]
  /\ policy_data = [start_date |-> BadDate]
  /\ customer_history = [recent_claims |-> 0]
  /\ fraud_detection_result = NoFraudResult
  /\ claim_status = ""

RiskIdle ==
  /\ risk_items = <<>>
  /\ location_factors = <<>>
  /\ risk_result = NoRiskResult

SentimentIdle ==
  /\ text = <<>>
  /\ sentiment_result = NoSentimentResult

CategorizeIdle ==
  /\ query = <<>>
  /\ query_category = ""

\* no document analysis has returned
NoDocumentResult ==
  [pending |-> TRUE]

DocumentIdle ==
  /\ document_text = NoText
  /\ document_result = NoDocumentResult

CutoffIdle ==
  /\ fraud_score_in = 0
  /\ simple_status = ""
  /\ detailed_status = ""

StoreIdle ==
  /\ store_tables = EmptyStore
  /\ agent_pc = [a \in Agents |-> "idle"]
  /\ agent_call = [a \in Agents |-> NoCall]
  /\ calls_begun = 0

----------------------------------------------------------------------------
(* assess_risk driven directly with any inventory and any factor list.     *)

\* the largest count of one category in an inventory
MaxCount ==
  2

\* the longest list of location factors
MaxFactors ==
  2

\* a known category, a capitalized known category, an unknown category
ItemCategories ==
  {"jewelry", "Electronics", "gadgets"}

\* dictionaries category -> count; -1 is a count no caller should pass
ItemInventories ==
  UNION {[cats -> (-1)..MaxCount] : cats \in SUBSET ItemCategories}

LocationTags ==
  {"flood_zone", "urban", "suburban", "Rural", "volcano"}

FactorLists ==
  UNION {[1..k -> LocationTags] : k \in 0..MaxFactors}

InitRisk ==
  /\ mode = "assess_risk"
  /\ pc = "call"
  /\ risk_items \in ItemInventories
  /\ location_factors \in FactorLists
  /\ risk_result = NoRiskResult
  /\ FraudIdle
  /\ SentimentIdle
  /\ WorkflowIdle
  /\ CategorizeIdle
  /\ DocumentIdle
  /\ CutoffIdle
  /\ StoreIdle

AssessRisk ==
  /\ mode = "assess_risk"
  /\ pc = "call"
  /\ risk_result' = assess_risk(risk_items, location_factors)
  /\ pc' = "returned"
  /\ UNCHANGED <<mode, risk_items, location_factors>>
  /\ UNCHANGED fraud_vars
  /\ UNCHANGED sentiment_vars
  /\ UNCHANGED workflow_vars
  /\ UNCHANGED categorize_vars
  /\ UNCHANGED document_vars
  /\ UNCHANGED cutoff_vars
  /\ UNCHANGED store_vars

NextRisk ==
  AssessRisk

SpecRisk ==
  InitRisk /\ [][NextRisk]_vars

----------------------------------------------------------------------------
(* analyze_sentiment driven directly with any text of up to MaxWords       *)
(* words, joined by single spaces.                                         *)

\* the largest number of words in a text
MaxWords ==
  3

\* the words the model builds texts from
TextWords ==
  {<<"G","r","e","a","t">>,
   <<"b","a","d">>,
   <<"o","k","a","y">>,
   <<"v","e","r","y">>,
   <<"e","x","t","r","e","m","e","l","y">>,
   <<"s","l","i","g","h","t","l","y">>,
   <<"e","v","e","r","y">>,
   <<"a">>,
   <<"b","i","t">>}

RECURSIVE JoinWords(_, _)
JoinWords(ws, k) ==
  IF k = 0
    THEN <<>>
    ELSE IF k = 1
           THEN ws[1]
           ELSE JoinWords(ws, k - 1) \o <<" ">> \o ws[k]

Texts ==
  {JoinWords(ws, Len(ws)) : ws \in UNION {[1..k -> TextWords] : k \in 0..MaxWords}}

InitSentiment ==
  /\ mode = "analyze_sentiment"
  /\ pc = "call"
  /\ text \in Texts
  /\ sentiment_result = NoSentimentResult
  /\ FraudIdle
  /\ RiskIdle
  /\ WorkflowIdle
  /\ CategorizeIdle
  /\ DocumentIdle
  /\ CutoffIdle
  /\ StoreIdle

AnalyzeSentiment ==
  /\ mode = "analyze_sentiment"
  /\ pc = "call"
  /\ sentiment_result' \in analyze_sentiment(text)
  /\ pc' = "returned"
  /\ UNCHANGED <<mode, text>>
  /\ UNCHANGED fraud_vars
  /\ UNCHANGED risk_vars
  /\ UNCHANGED workflow_vars
  /\ UNCHANGED categorize_vars
  /\ UNCHANGED document_vars
  /\ UNCHANGED cutoff_vars
  /\ UNCHANGED store_vars

NextSentiment ==
  AnalyzeSentiment

SpecSentiment ==
  InitSentiment /\ [][NextSentiment]_vars

----------------------------------------------------------------------------
(* Fraud scoring driven directly: the environment hands detect_fraud any   *)
(* claim, policy and history, on any day, and the status decision of       *)
(* process_claim is then taken on the score it returned.                   *)

\* policy start dates fed to detect_fraud
StartDates ==
  {Date(0), Date(390), BadDate}

\* report dates fed to detect_fraud: day 400 is a Tuesday, day 405 a Sunday
ReportDates ==
  {Date(400), Date(405), BadDate}

\* days on which detect_fraud is called
CallDays ==
  {400, 405, 419, 420}

ItemList(n) ==
  [i \in 1..n |-> "item"]

ItemLists ==
  {ItemList(0), ItemList(15), ItemList(16)}

RecentClaimCounts ==
  {0, 2, 3, 4}

InitFraud ==
  /\ mode = "detect_fraud"
  /\ pc = "call"
  /\ now \in CallDays
  /\ claim_data \in [description : Descriptions, report_date : ReportDates,
                     items : ItemLists, police_report : BOOLEAN]
  /\ policy_data \in [start_date : StartDates]
  /\ customer_history \in [recent_claims : RecentClaimCounts]
  /\ fraud_detection_result = NoFraudResult
  /\ claim_status = ""
  /\ RiskIdle
  /\ SentimentIdle
  /\ WorkflowIdle
  /\ CategorizeIdle
  /\ DocumentIdle
  /\ CutoffIdle
  /\ StoreIdle

DetectFraud ==
  /\ mode = "detect_fraud"
  /\ pc = "call"
  /\ fraud_detection_result' =
       detect_fraud(claim_data, policy_data, customer_history, now)
  /\ pc' = "scored"
  /\ UNCHANGED <<mode, now, claim_data, policy_data, customer_history,
                 claim_status>>
  /\ UNCHANGED risk_vars
  /\ UNCHANGED sentiment_vars
  /\ UNCHANGED workflow_vars
  /\ UNCHANGED categorize_vars
  /\ UNCHANGED document_vars
  /\ UNCHANGED cutoff_vars
  /\ UNCHANGED store_vars

DetermineStatus ==
  /\ pc = "scored"
  /\ claim_status' = DetermineClaimStatus(fraud_detection_result.fraud_score)
  /\ pc' = "decided"
  /\ UNCHANGED <<mode, now, claim_data, policy_data, customer_history,
                 fraud_detection_result>>
  /\ UNCHANGED risk_vars
  /\ UNCHANGED sentiment_vars
  /\ UNCHANGED workflow_vars
  /\ UNCHANGED categorize_vars
  /\ UNCHANGED document_vars
  /\ UNCHANGED cutoff_vars
  /\ UNCHANGED store_vars

NextFraud ==
  \/ DetectFraud
  \/ DetermineStatus

SpecFraud ==
  InitFraud /\ [][NextFraud]_vars

----------------------------------------------------------------------------
(* ClaimsProcessor.process_claim, one call, statement by statement.  The   *)
(* environment chooses the claim description, the text the vision model    *)
(* answers with, the day, the records already in the store, the statement  *)
(* of the try block (if any) at which an exception is raised, and for      *)
(* each store call whether the store raises.                               *)

\* 'Water damage after a theft' (5 words)
DescWaterAndTheft ==
  <<"W","a","t","e","r"," ","d","a","m","a","g","e"," ","a","f","t","e","r",
    " ","a"," ","t","h","e","f","t">>

\* descriptions submitted with a claim
ClaimDescriptions ==
  {DescTheftJewelry, DescStolenNoReport, DescLeakingPipe, DescLongWater,
   DescWaterAndTheft}

\* texts the vision model answers with
Analyses ==
  {AnalysisItems, AnalysisVisible, AnalysisManyItems, AnalysisEmpty}

\* days of the call: the policy of _get_policy_data starts on day 2; day 11
\* is a Friday, day 12 a Saturday, day 400 a Tuesday
ClaimDays ==
  {11, 12, 400}

\* the statements of the try block that may raise; "detect_fraud_raises" is
\* an exception inside _detect_fraud, "detect_fraud_error" an exception
\* inside the fraud detection tool, which answers with an error document
Faults ==
  {"none", "analyze_image", "extract_items", "detect_fraud_raises",
   "detect_fraud_error", "calculate_claim_amount"}

\* str(e) of the exception raised at a statement
ErrorText(f) ==
  IF f = "analyze_image" THEN "image analysis failed"
  ELSE IF f = "extract_items" THEN "item extraction failed"
  ELSE IF f = "detect_fraud_error" THEN "'fraud_score'"
  ELSE IF f = "calculate_claim_amount" THEN "amount computation failed"
  ELSE IF f \in {"create_claim", "log_agent_activity"} THEN "store failed"
  ELSE ""

\* the store as an earlier call left it
StoreContents ==
  {EmptyTables,
   [EmptyTables EXCEPT
      !.agent_activities = <<[id |-> 1, agent_type |-> "Claims Processor",
                              action |-> "Claim Processing",
                              output |-> [error |-> "image analysis failed"],
                              success |-> FALSE]>>]}

Init ==
  /\ mode = "process_claim"
  /\ pc = "submitted"
  /\ now \in ClaimDays
  /\ claim_description \in ClaimDescriptions
  /\ raw_analysis \in Analyses
  /\ fault \in Faults
  /\ tables \in StoreContents
  /\ store_calls = <<>>
  /\ image_analysis = NoImageAnalysis
  /\ claim_data = [description |-> <<>>, report_date |-> BadDate,
                   items |-> <<>>, police_report |-> FALSE]
  /\ policy_data = [start_date |-> BadDate]
  /\ customer_history = [recent_claims |-> 0]
  /\ fraud_detection_result = NoFraudResult
  /\ claim_status = ""
  /\ claim_amount = 0
  /\ claim_assessment = NoClaimAssessment
  /\ error = ""
  /\ result = NoResult
  /\ RiskIdle
  /\ SentimentIdle
  /\ CategorizeIdle
  /\ DocumentIdle
  /\ CutoffIdle
  /\ StoreIdle

\* an exception leaves the try block for the except clause
Raise(f) ==
  /\ pc' = "failed"
  /\ error' = ErrorText(f)

\* line 41: image_analysis = self.image_processor.analyze_image(image_path)
AnalyzeImage ==
  /\ mode = "process_claim"
  /\ pc = "submitted"
  /\ IF fault = "analyze_image"
       THEN Raise(fault) /\ UNCHANGED image_analysis
       ELSE /\ image_analysis' = [raw_analysis |-> raw_analysis]
            /\ pc' = "analyzed"
            /\ UNCHANGED error
  /\ UNCHANGED <<mode, now, claim_data, policy_data, customer_history,
                 fraud_detection_result, claim_status, fault,
                 claim_description, raw_analysis, claim_amount,
                 claim_assessment, tables, store_calls, result>>
  /\ UNCHANGED risk_vars
  /\ UNCHANGED sentiment_vars
  /\ UNCHANGED categorize_vars
  /\ UNCHANGED document_vars
  /\ UNCHANGED cutoff_vars
  /\ UNCHANGED store_vars

\* lines 43-56: the policy, the customer history and the claim data
PrepareClaimData ==
  /\ mode = "process_claim"
  /\ pc = "analyzed"
  /\ policy_data' = get_policy_data(PolicyNumber)
  /\ customer_history' = get_customer_history
  /\ IF fault = "extract_items"
       THEN Raise(fault) /\ UNCHANGED claim_data
       ELSE /\ claim_data' =
                 [description |-> claim_description,
                  report_date |-> Date(now),
                  items |-> extract_items_from_analysis(image_analysis.raw_analysis),
                  police_report |->
                    Contains(Lower(claim_description), KW_police_report)]
            /\ pc' = "prepared"
            /\ UNCHANGED error
  /\ UNCHANGED <<mode, now, fraud_detection_result, claim_status, fault,
                 claim_description, raw_analysis, image_analysis,
                 claim_amount, claim_assessment, tables, store_calls, result>>
  /\ UNCHANGED risk_vars
  /\ UNCHANGED sentiment_vars
  /\ UNCHANGED categorize_vars
  /\ UNCHANGED document_vars
  /\ UNCHANGED cutoff_vars
  /\ UNCHANGED store_vars

\* the result _detect_fraud returns when it catches an exception
FallbackFraudResult ==
  [fraud_score |-> 10, risk_category |-> "Low", indicators_found |-> <<>>,
   recommended_action |-> "Process claim normally"]

\* ClaimsProcessor._detect_fraud
detect_fraud_wrapper(cd, pd, ch, today, f) ==
  IF f = "detect_fraud_raises"
    THEN FallbackFraudResult
    ELSE IF f = "detect_fraud_error"
           THEN [error |-> "fraud detection failed"]
           ELSE detect_fraud(cd, pd, ch, today)

\* line 59: fraud_detection_result = self._detect_fraud(...)
ScoreFraud ==
  /\ mode = "process_claim"
  /\ pc = "prepared"
  /\ fraud_detection_result' =
       detect_fraud_wrapper(claim_data, policy_data, customer_history, now,
                            fault)
  /\ pc' = "fraud_scored"
  /\ UNCHANGED <<mode, now, claim_data, policy_data, customer_history,
                 claim_status, fault, claim_description, raw_analysis,
                 image_analysis, claim_amount, claim_assessment, tables,
                 store_calls, result, error>>
  /\ UNCHANGED risk_vars
  /\ UNCHANGED sentiment_vars
  /\ UNCHANGED categorize_vars
  /\ UNCHANGED document_vars
  /\ UNCHANGED cutoff_vars
  /\ UNCHANGED store_vars

\* lines 61-66: the status; a result without fraud_score is a KeyError
SetClaimStatus ==
  /\ mode = "process_claim"
  /\ pc = "fraud_scored"
  /\ IF "fraud_score" \in DOMAIN fraud_detection_result
       THEN /\ claim_status' =
                 DetermineClaimStatus(fraud_detection_result.fraud_score)
            /\ pc' = "status_set"
            /\ UNCHANGED error
       ELSE /\ claim_status' = "Approved"
            /\ Raise("detect_fraud_error")
  /\ UNCHANGED <<mode, now, claim_data, policy_data, customer_history,
                 fraud_detection_result, fault, claim_description,
                 raw_analysis, image_analysis, claim_amount,
                 claim_assessment, tables, store_calls, result>>
  /\ UNCHANGED risk_vars
  /\ UNCHANGED sentiment_vars
  /\ UNCHANGED categorize_vars
  /\ UNCHANGED document_vars
  /\ UNCHANGED cutoff_vars
  /\ UNCHANGED store_vars

\* line 69: claim_amount = self._calculate_claim_amount(...)
CalculateClaimAmount ==
  /\ mode = "process_claim"
  /\ pc = "status_set"
  /\ IF fault = "calculate_claim_amount"
       THEN Raise(fault) /\ UNCHANGED claim_amount
       ELSE /\ claim_amount' = calculate_claim_amount(claim_data, policy_data)
            /\ pc' = "amount_set"
            /\ UNCHANGED error
  /\ UNCHANGED <<mode, now, claim_data, policy_data, customer_history,
                 fraud_detection_result, claim_status, fault,
                 claim_description, raw_analysis, image_analysis,
                 claim_assessment, tables, store_calls, result>>
  /\ UNCHANGED risk_vars
  /\ UNCHANGED sentiment_vars
  /\ UNCHANGED categorize_vars
  /\ UNCHANGED document_vars
  /\ UNCHANGED cutoff_vars
  /\ UNCHANGED store_vars

\* lines 71-84: the claim number and the claim assessment
CreateClaimAssessment ==
  /\ mode = "process_claim"
  /\ pc = "amount_set"
  /\ claim_assessment' =
       [claim_number |-> ClaimNumber(PolicyNumber, claim_description, now),
        policy_number |-> PolicyNumber,
        status |-> claim_status,
        fraud_score |-> fraud_detection_result.fraud_score,
        fraud_indicators |-> fraud_detection_result.indicators_found,
        claim_amount |-> claim_amount,
        items_claimed |-> claim_data.items,
        next_steps |-> get_next_steps(claim_status)]
  /\ pc' = "assessed"
  /\ UNCHANGED <<mode, now, claim_data, policy_data, customer_history,
                 fraud_detection_result, claim_status, fault,
                 claim_description, raw_analysis, image_analysis,
                 claim_amount, tables, store_calls, result, error>>
  /\ UNCHANGED risk_vars
  /\ UNCHANGED sentiment_vars
  /\ UNCHANGED categorize_vars
  /\ UNCHANGED document_vars
  /\ UNCHANGED cutoff_vars
  /\ UNCHANGED store_vars

\* mutant: the amount is approved whatever the status
ClaimRecord_always_approved ==
  [claim_number |-> claim_assessment.claim_number,
   policy_id |-> policy_data.id,
   status |-> claim_status,
   amount_requested |-> claim_amount,
   amount_approved |-> claim_amount,
   fraud_score |-> fraud_detection_result.fraud_score]

\* the record process_claim hands to create_claim
ClaimRecord ==
  [claim_number |-> claim_assessment.claim_number,
   policy_id |-> policy_data.id,
   status |-> claim_status,
   amount_requested |-> claim_amount,
   amount_approved |-> IF claim_status = "Approved" THEN claim_amount ELSE 0,
   fraud_score |-> fraud_detection_result.fraud_score]

\* lines 86-103: the claim is saved; an exception of the store is printed
SaveClaim ==
  /\ mode = "process_claim"
  /\ pc = "assessed"
  /\ \E store_raises \in BOOLEAN :
       LET saved == SaveClaimToDatabase(tables, ClaimRecord, store_raises)
       IN  /\ tables' = saved.tables
           /\ store_calls' = Append(store_calls, [op |-> "create_claim",
                                                  raised |-> store_raises])
           /\ IF saved.raised
                THEN Raise("create_claim")
                ELSE pc' = "saved" /\ UNCHANGED error
  /\ UNCHANGED <<mode, now, claim_data, policy_data, customer_history,
                 fraud_detection_result, claim_status, fault,
                 claim_description, raw_analysis, image_analysis,
                 claim_amount, claim_assessment, result>>
  /\ UNCHANGED risk_vars
  /\ UNCHANGED sentiment_vars
  /\ UNCHANGED categorize_vars
  /\ UNCHANGED document_vars
  /\ UNCHANGED cutoff_vars
  /\ UNCHANGED store_vars

\* lines 105-113: the activity of the successful call is logged
LogSuccess ==
  /\ mode = "process_claim"
  /\ pc = "saved"
  /\ \E store_raises \in BOOLEAN :
       LET logged == LogAgentActivity(tables, claim_assessment, TRUE,
                                      store_raises)
       IN  /\ tables' = logged.tables
           /\ store_calls' = Append(store_calls,
                                    [op |-> "log_agent_activity",
                                     raised |-> store_raises])
           /\ IF logged.raised
                THEN Raise("log_agent_activity")
                ELSE pc' = "logged" /\ UNCHANGED error
  /\ UNCHANGED <<mode, now, claim_data, policy_data, customer_history,
                 fraud_detection_result, claim_status, fault,
                 claim_description, raw_analysis, image_analysis,
                 claim_amount, claim_assessment, result>>
  /\ UNCHANGED risk_vars
  /\ UNCHANGED sentiment_vars
  /\ UNCHANGED categorize_vars
  /\ UNCHANGED document_vars
  /\ UNCHANGED cutoff_vars
  /\ UNCHANGED store_vars

\* lines 115-123: the assessment is formatted and the result returned
ReturnAssessment ==
  /\ mode = "process_claim"
  /\ pc = "logged"
  /\ result' = [success |-> TRUE,
                claim_assessment |-> claim_assessment,
                formatted_assessment |->
                  format_claim_assessment(claim_assessment)]
  /\ pc' = "returned"
  /\ UNCHANGED <<mode, now, claim_data, policy_data, customer_history,
                 fraud_detection_result, claim_status, fault,
                 claim_description, raw_analysis, image_analysis,
                 claim_amount, claim_assessment, tables, store_calls, error>>
  /\ UNCHANGED risk_vars
  /\ UNCHANGED sentiment_vars
  /\ UNCHANGED categorize_vars
  /\ UNCHANGED document_vars
  /\ UNCHANGED cutoff_vars
  /\ UNCHANGED store_vars

\* lines 125-140: the except clause logs the failure and returns it; an
\* exception that leaves the except clause reaches the caller
HandleFailure ==
  /\ mode = "process_claim"
  /\ pc = "failed"
  /\ \E store_raises \in BOOLEAN :
       LET logged == LogAgentActivity(tables, [error |-> error], FALSE,
                                      store_raises)
       IN  /\ tables' = logged.tables
           /\ store_calls' = Append(store_calls,
                                    [op |-> "log_agent_activity",
                                     raised |-> store_raises])
           /\ IF logged.raised
                THEN pc' = "raised" /\ UNCHANGED result
                ELSE /\ pc' = "returned"
                     /\ result' = [success |-> FALSE, error |-> error]
  /\ UNCHANGED <<mode, now, claim_data, policy_data, customer_history,
                 fraud_detection_result, claim_status, fault,
                 claim_description, raw_analysis, image_analysis,
                 claim_amount, claim_assessment, error>>
  /\ UNCHANGED risk_vars
  /\ UNCHANGED sentiment_vars
  /\ UNCHANGED categorize_vars
  /\ UNCHANGED document_vars
  /\ UNCHANGED cutoff_vars
  /\ UNCHANGED store_vars

Next ==
  \/ AnalyzeImage
  \/ PrepareClaimData
  \/ ScoreFraud
  \/ SetClaimStatus
  \/ CalculateClaimAmount
  \/ CreateClaimAssessment
  \/ SaveClaim
  \/ LogSuccess
  \/ ReturnAssessment
  \/ HandleFailure

Spec ==
  Init /\ [][Next]_vars


----------------------------------------------------------------------------
(* _categorize_query driven directly with the query of the example and     *)
(* every query of up to MaxQueryWords words joined by single spaces.       *)

\* the largest number of words in a query
MaxQueryWords ==
  2

\* the words queries are built from: "payment" is a keyword of two
\* categories, "covered" holds "cover", "error" is in two tables
QueryWords ==
  {<<"P","o","l","i","c","y">>,
   <<"c","l","a","i","m">>,
   <<"p","a","y","m","e","n","t">>,
   <<"c","o","v","e","r","e","d">>,
   <<"e","r","r","o","r">>,
   <<"h","e","l","l","o">>,
   <<"b","i","l","l">>,
   <<"p","a","y">>}

\* 'What is my deductible and how do I pay my bill?'
QueryDeductibleBill ==
  <<"W","h","a","t"," ","i","s"," ","m","y"," ","d","e","d","u","c","t","i",
    "b","l","e"," ","a","n","d"," ","h","o","w"," ","d","o"," ","I"," ","p",
    "a","y"," ","m","y"," ","b","i","l","l","?">>

Queries ==
  {QueryDeductibleBill} \cup
  {JoinWords(ws, Len(ws)) :
     ws \in UNION {[1..k -> QueryWords] : k \in 0..MaxQueryWords}}

InitCategorize ==
  /\ mode = "categorize_query"
  /\ pc = "call"
  /\ query \in Queries
  /\ query_category = ""
  /\ FraudIdle
  /\ RiskIdle
  /\ SentimentIdle
  /\ WorkflowIdle
  /\ DocumentIdle
  /\ CutoffIdle
  /\ StoreIdle

CategorizeQuery ==
  /\ mode = "categorize_query"
  /\ pc = "call"
  /\ query_category' = categorize_query(query)
  /\ pc' = "returned"
  /\ UNCHANGED <<mode, query>>
  /\ UNCHANGED fraud_vars
  /\ UNCHANGED risk_vars
  /\ UNCHANGED sentiment_vars
  /\ UNCHANGED workflow_vars
  /\ UNCHANGED document_vars
  /\ UNCHANGED cutoff_vars
  /\ UNCHANGED store_vars

NextCategorize ==
  CategorizeQuery

SpecCategorize ==
  InitCategorize /\ [][NextCategorize]_vars

----------------------------------------------------------------------------
(* The document analysis driven directly, through analyze_document or      *)
(* through the tool function, with a text that is not a string and with    *)
(* every text of up to MaxDocLines lines.                                   *)

\* the largest number of lines in a document
MaxDocLines ==
  2

\* the lines documents are built from
DocLines ==
  {<<"P","o","l","i","c","y"," ","N","u","m","b","e","r",":"," ","P","-","1">>,
   <<"p","r","e","m","i","u","m",":"," ","1","0","0">>,
   <<"P","r","e","m","i","u","m"," ",":"," ","2","5","0">>,
   <<"C","l","a","i","m"," "," ","n","u","m","b","e","r">>,
   <<"I","n","c","i","d","e","n","t"," ","d","a","t","e",":"," ","0","1","/","0","2","/","2","0","2","5">>,
   <<"I","n","v","o","i","c","e"," ","n","u","m","b","e","r",":"," ","7">>,
   <<"A","m","o","u","n","t"," ","d","u","e",":"," ","$","1",",","2","0","0",".","5","0">>,
   <<"r","e","c","e","i","p","t"," ","n","u","m","b","e","r">>,
   <<"h","e","l","l","o">>}

RECURSIVE JoinLines(_, _)
JoinLines(ls, k) ==
  IF k = 0
    THEN <<>>
    ELSE IF k = 1
           THEN ls[1]
           ELSE JoinLines(ls, k - 1) \o <<"\n">> \o ls[k]

DocumentTexts ==
  {NoText} \cup
  {TextOf(JoinLines(ls, Len(ls))) :
     ls \in UNION {[1..k -> DocLines] : k \in 0..MaxDocLines}}

InitDocument ==
  /\ mode \in {"analyze_document", "document_analysis_tool"}
  /\ pc = "call"
  /\ document_text \in DocumentTexts
  /\ document_result = NoDocumentResult
  /\ FraudIdle
  /\ RiskIdle
  /\ SentimentIdle
  /\ WorkflowIdle
  /\ CategorizeIdle
  /\ CutoffIdle
  /\ StoreIdle

\* a call of analyze_document: the exception of a failing step reaches the
\* caller
AnalyzeDocument ==
  /\ mode = "analyze_document"
  /\ pc = "call"
  /\ \E results \in {analyze_document(document_text)} :
       /\ document_result' = results
       /\ pc' = IF results.raised THEN "raised" ELSE "returned"
  /\ UNCHANGED <<mode, document_text>>
  /\ UNCHANGED fraud_vars
  /\ UNCHANGED risk_vars
  /\ UNCHANGED sentiment_vars
  /\ UNCHANGED workflow_vars
  /\ UNCHANGED categorize_vars
  /\ UNCHANGED cutoff_vars
  /\ UNCHANGED store_vars

\* a call of _document_analysis_tool
DocumentAnalysisTool ==
  /\ mode = "document_analysis_tool"
  /\ pc = "call"
  /\ document_result' = document_analysis_tool(document_text)
  /\ pc' = "returned"
  /\ UNCHANGED <<mode, document_text>>
  /\ UNCHANGED fraud_vars
  /\ UNCHANGED risk_vars
  /\ UNCHANGED sentiment_vars
  /\ UNCHANGED workflow_vars
  /\ UNCHANGED categorize_vars
  /\ UNCHANGED cutoff_vars
  /\ UNCHANGED store_vars

NextDocument ==
  \/ AnalyzeDocument
  \/ DocumentAnalysisTool

SpecDocument ==
  InitDocument /\ [][NextDocument]_vars

----------------------------------------------------------------------------
(* _calculate_claim_amount driven directly with every list of up to        *)
(* MaxClaimItems claimed items and every policy of the model.              *)

\* the largest number of claimed items
MaxClaimItems ==
  2

\* claimed items: three with one keyword, one without, one with two
ClaimedItems ==
  {<<"S","m","a","r","t"," ","T","V">>,
   <<"l","a","p","t","o","p">>,
   <<"G","o","l","d"," ","J","E","W","E","L","R","Y">>,
   <<"o","l","d"," ","c","h","a","i","r">>,
   <<"t","v"," ","f","u","r","n","i","t","u","r","e">>}

ClaimedItemLists ==
  UNION {[1..k -> ClaimedItems] : k \in 0..MaxClaimItems}

\* coverage amounts of the policies, in dollars
CoverageAmounts ==
  {0, 1500, 250000}

\* deductibles of the policies, in dollars
Deductibles ==
  {0, 500, 1000, 2000}

InitAmount ==
  /\ mode = "calculate_claim_amount"
  /\ pc = "call"
  /\ now = 0
  /\ claim_data \in [description : {<<>>}, report_date : {BadDate},
                     items : ClaimedItemLists, police_report : {FALSE}]
  /\ policy_data \in [coverage_amount : CoverageAmounts,
                      coverage_details : [deductible : Deductibles]]
  /\ customer_history = [recent_claims |-> 0]
  /\ fraud_detection_result = NoFraudResult
  /\ claim_status = ""
  /\ WorkflowIdle
  /\ RiskIdle
  /\ SentimentIdle
  /\ CategorizeIdle
  /\ DocumentIdle
  /\ CutoffIdle
  /\ StoreIdle

CalculateAmount ==
  /\ mode = "calculate_claim_amount"
  /\ pc = "call"
  /\ claim_amount' = calculate_claim_amount(claim_data, policy_data)
  /\ pc' = "returned"
  /\ UNCHANGED <<mode, now, claim_data, policy_data, customer_history,
                 fraud_detection_result, claim_status, fault,
                 claim_description, raw_analysis, image_analysis,
                 claim_assessment, tables, store_calls, error, result>>
  /\ UNCHANGED risk_vars
  /\ UNCHANGED sentiment_vars
  /\ UNCHANGED categorize_vars
  /\ UNCHANGED document_vars
  /\ UNCHANGED cutoff_vars
  /\ UNCHANGED store_vars

NextAmount ==
  CalculateAmount

SpecAmount ==
  InitAmount /\ [][NextAmount]_vars

----------------------------------------------------------------------------
(* The status decisions of the two claim paths driven with the same fraud  *)
(* score, whatever the score.                                              *)

\* every fraud score from 0.00 to 1.00, in hundredths
FraudScores ==
  0..100

InitCutoffs ==
  /\ mode = "claim_status"
  /\ pc = "call"
  /\ fraud_score_in \in FraudScores
  /\ simple_status = ""
  /\ detailed_status = ""
  /\ FraudIdle
  /\ RiskIdle
  /\ SentimentIdle
  /\ WorkflowIdle
  /\ CategorizeIdle
  /\ DocumentIdle
  /\ StoreIdle

\* the simple claim path decides
SimpleDecide ==
  /\ mode = "claim_status"
  /\ simple_status = ""
  /\ simple_status' = SimpleClaimStatus(fraud_score_in)
  /\ pc' = IF detailed_status # "" THEN "decided" ELSE pc
  /\ UNCHANGED <<mode, fraud_score_in, detailed_status>>
  /\ UNCHANGED fraud_vars
  /\ UNCHANGED risk_vars
  /\ UNCHANGED sentiment_vars
  /\ UNCHANGED workflow_vars
  /\ UNCHANGED categorize_vars
  /\ UNCHANGED document_vars
  /\ UNCHANGED store_vars

\* the detailed claim path decides
DetailedDecide ==
  /\ mode = "claim_status"
  /\ detailed_status = ""
  /\ detailed_status' = DetermineClaimStatus(fraud_score_in)
  /\ pc' = IF simple_status # "" THEN "decided" ELSE pc
  /\ UNCHANGED <<mode, fraud_score_in, simple_status>>
  /\ UNCHANGED fraud_vars
  /\ UNCHANGED risk_vars
  /\ UNCHANGED sentiment_vars
  /\ UNCHANGED workflow_vars
  /\ UNCHANGED categorize_vars
  /\ UNCHANGED document_vars
  /\ UNCHANGED store_vars

NextCutoffs ==
  \/ SimpleDecide
  \/ DetailedDecide

SpecCutoffs ==
  InitCutoffs /\ [][NextCutoffs]_vars

----------------------------------------------------------------------------
(* Store calls of two agents on the shared instance; the statements of     *)
(* calls made from different threads of the UI interleave.                 *)

\* the store calls made in a run
MaxStoreCalls ==
  3

\* the tables as an earlier run saved them and _load_data read them
LoadedStores ==
  {EmptyStore,
   [EmptyStore EXCEPT !["claims"] = <<[id |-> 1, call |-> 0]>>]}

InitStore ==
  /\ mode = "store"
  /\ pc = "serving"
  /\ store_tables \in LoadedStores
  /\ agent_pc = [a \in Agents |-> "idle"]
  /\ agent_call = [a \in Agents |-> NoCall]
  /\ calls_begun = 0
  /\ FraudIdle
  /\ RiskIdle
  /\ SentimentIdle
  /\ WorkflowIdle
  /\ CategorizeIdle
  /\ DocumentIdle
  /\ CutoffIdle

\* an agent enters create_policy, create_claim, log_agent_activity or
\* create_escalation with a new record; the first statement gives it its id
BeginStoreCall(a, method) ==
  /\ mode = "store"
  /\ agent_pc[a] = "idle"
  /\ calls_begun < MaxStoreCalls
  /\ calls_begun' = calls_begun + 1
  /\ agent_call' =
       [agent_call EXCEPT
          ![a] = [method |-> method,
                  record |-> AssignId(store_tables, method,
                                      [id |-> 0, call |-> calls_begun + 1])]]
  /\ agent_pc' = [agent_pc EXCEPT ![a] = "id_assigned"]
  /\ UNCHANGED <<mode, pc, store_tables>>
  /\ UNCHANGED fraud_vars
  /\ UNCHANGED risk_vars
  /\ UNCHANGED sentiment_vars
  /\ UNCHANGED workflow_vars
  /\ UNCHANGED categorize_vars
  /\ UNCHANGED document_vars
  /\ UNCHANGED cutoff_vars

\* the append statement of the method
AppendToTable(a) ==
  /\ mode = "store"
  /\ agent_pc[a] = "id_assigned"
  /\ store_tables' = AppendRecord(store_tables, agent_call[a].method,
                                  agent_call[a].record)
  /\ agent_pc' = [agent_pc EXCEPT ![a] = "appended"]
  /\ UNCHANGED <<mode, pc, agent_call, calls_begun>>
  /\ UNCHANGED fraud_vars
  /\ UNCHANGED risk_vars
  /\ UNCHANGED sentiment_vars
  /\ UNCHANGED workflow_vars
  /\ UNCHANGED categorize_vars
  /\ UNCHANGED document_vars
  /\ UNCHANGED cutoff_vars

\* _save_data writes the table to its file and the method returns
SaveAndReturn(a) ==
  /\ mode = "store"
  /\ agent_pc[a] = "appended"
  /\ agent_pc' = [agent_pc EXCEPT ![a] = "idle"]
  /\ agent_call' = [agent_call EXCEPT ![a] = NoCall]
  /\ UNCHANGED <<mode, pc, store_tables, calls_begun>>
  /\ UNCHANGED fraud_vars
  /\ UNCHANGED risk_vars
  /\ UNCHANGED sentiment_vars
  /\ UNCHANGED workflow_vars
  /\ UNCHANGED categorize_vars
  /\ UNCHANGED document_vars
  /\ UNCHANGED cutoff_vars

NextStore ==
  \/ \E a \in Agents, method \in DOMAIN StoreMethods : BeginStoreCall(a, method)
  \/ \E a \in Agents : AppendToTable(a)
  \/ \E a \in Agents : SaveAndReturn(a)

SpecStore ==
  InitStore /\ [][NextStore]_vars

----------------------------------------------------------------------------
(* Properties of analyze_sentiment (SpecSentiment).                        *)

SentimentReturned ==
  mode = "analyze_sentiment" /\ pc = "returned"

\* C10: for every text the sentiment score is within [-1, 1], whatever
\* number of intensity adjustments applies; for the empty string the
\* result is neutral with score 0.
C10_SentimentScoreClamped ==
  SentimentReturned =>
    /\ sentiment_result.sentiment_score.d > 0
    /\ sentiment_result.sentiment_score.n <= sentiment_result.sentiment_score.d
    /\ sentiment_result.sentiment_score.n >= -sentiment_result.sentiment_score.d
    /\ text = <<>> =>
         /\ sentiment_result.sentiment = "neutral"
         /\ sentiment_result.sentiment_score.n = 0

\* a text whose adjusted score leaves the range before the clamp
\* ("extremely bad": -1 - 1 = -2) has been analyzed
C10_AdjustmentLeavesRange ==
  /\ SentimentReturned
  /\ UnclampedScore(text).n < -UnclampedScore(text).d
  /\ sentiment_result.sentiment_score = Frac(-1, 1)
  /\ sentiment_result.sentiment = "negative"

----------------------------------------------------------------------------
(* Properties of assess_risk (SpecRisk).                                   *)

RiskReturned ==
  mode = "assess_risk" /\ pc = "returned"

\* an ItemInventory: every count is a non-negative integer
IsInventory(items) ==
  \A c \in DOMAIN items : items[c] >= 0

\* C7: for every inventory whose total count is 0, the empty one included,
\* and every list of location factors, assess_risk does not divide by zero
\* and returns item_risk_contribution 0, risk_score 0 and category Low.
C7_ZeroItemsGiveZeroRisk ==
  (RiskReturned /\ IsInventory(risk_items) /\ TotalItems(risk_items) = 0) =>
    /\ ~risk_result.raised
    /\ risk_result.item_risk_contribution.n = 0
    /\ risk_result.risk_score.n = 0
    /\ risk_result.risk_category = "Low"

\* the empty inventory assessed in a flood zone in a city: location risk 1.54
C7_EmptyInventoryHighRiskLocation ==
  /\ RiskReturned
  /\ risk_items = <<>>
  /\ location_factors = <<"flood_zone", "urban">>
  /\ 100 * risk_result.location_risk_contribution.n =
       154 * risk_result.location_risk_contribution.d

\* C8: the category is Low exactly below 1.0, High exactly above 1.5 and
\* Medium on the closed interval [1.0, 1.5], where the score is
\* 1.0 x item_risk x location_risk.
C8_CategoryFollowsOverallRisk ==
  (RiskReturned /\ ~risk_result.raised) =>
    LET r == risk_result
        s == r.risk_score
    IN  /\ s.d > 0
        /\ s.n * (r.item_risk_contribution.d * r.location_risk_contribution.d) =
             (r.item_risk_contribution.n * r.location_risk_contribution.n) * s.d
        /\ (r.risk_category = "Low") <=> (s.n < s.d)
        /\ (r.risk_category = "High") <=> (2 * s.n > 3 * s.d)
        /\ (r.risk_category = "Medium") <=>
             (s.n >= s.d /\ 2 * s.n <= 3 * s.d)

\* one piece of jewelry and no location factor: the score is exactly 1.5
C8_ScoreOnHighThreshold ==
  /\ RiskReturned
  /\ risk_items = [c \in {"jewelry"} |-> 1]
  /\ 2 * risk_result.risk_score.n = 3 * risk_result.risk_score.d
  /\ risk_result.risk_category = "Medium"

\* C9: for every inventory, negative counts included, risk_score,
\* item_risk_contribution and recommended_coverage are never negative.
C9_NoNegativeResults ==
  (RiskReturned /\ ~risk_result.raised) =>
    /\ risk_result.risk_score.n >= 0
    /\ risk_result.item_risk_contribution.n >= 0
    /\ risk_result.recommended_coverage.n >= 0

----------------------------------------------------------------------------
(* Properties of fraud scoring and of the status decision (SpecFraud).     *)

Scored ==
  mode = "detect_fraud" /\ pc \in {"scored", "decided"}

Decided ==
  mode = "detect_fraud" /\ pc = "decided"

\* C1: the status decided from a fraud score is Approved up to 0.5, Under
\* Review above 0.5 up to 0.7, and Rejected above 0.7.
C1_StatusFollowsCutoffs ==
  Decided =>
    LET fs == fraud_detection_result.fraud_score
    IN  claim_status =
          (IF fs <= 50 THEN "Approved"
           ELSE IF fs <= 70 THEN "Under Review" ELSE "Rejected")

\* C3: whatever rules trigger, the fraud score returned by detect_fraud is
\* in the closed range [0, 1].
C3_FraudScoreInUnitRange ==
  Scored =>
    /\ fraud_detection_result.fraud_score >= 0
    /\ fraud_detection_result.fraud_score <= 100

\* all seven rules triggered: the largest score detect_fraud can return
C3_AllRulesTriggered ==
  /\ Scored
  /\ Len(fraud_detection_result.indicators_found) = 7
  /\ fraud_detection_result.fraud_score = 86

\* C4: the risk category is High exactly above 0.7, Medium exactly above 0.3
\* up to 0.7 and Low otherwise, and the recommended action is the fixed
\* string of the category.
C4_CategoryAndActionFollowScore ==
  Scored =>
    LET r == fraud_detection_result
    IN  /\ (r.risk_category = "High") <=> (r.fraud_score > 70)
        /\ (r.risk_category = "Medium") <=>
             (r.fraud_score > 30 /\ r.fraud_score <= 70)
        /\ (r.risk_category = "Low") <=> (r.fraud_score <= 30)
        /\ r.risk_category = "High" =>
             r.recommended_action = "Escalate for investigation"
        /\ r.risk_category = "Medium" =>
             r.recommended_action = "Request additional documentation"
        /\ r.risk_category = "Low" =>
             r.recommended_action = "Process claim normally"

\* a score exactly on the High threshold stays Medium
C4_ScoreOnHighThreshold ==
  /\ Scored
  /\ fraud_detection_result.fraud_score = 70
  /\ fraud_detection_result.risk_category = "Medium"
  /\ fraud_detection_result.recommended_action =
       "Request additional documentation"

\* the scenario of C5: six-word theft claim reported on a weekday, no
\* police report, policy started 10 days before the report, 4 recent claims
C5_Scenario ==
  /\ claim_data.description = DescTheftJewelry
  /\ claim_data.report_date = Date(400)
  /\ ~claim_data.police_report
  /\ Len(claim_data.items) <= 15
  /\ policy_data.start_date = Date(390)
  /\ customer_history.recent_claims = 4

\* C5: in that scenario exactly Recent policy, Vague description, Multiple
\* claims and Theft-no-police-report trigger: raw 2.8, normalized 0.56,
\* category Medium, status Under Review.
C5_TheftScenarioScores ==
  (Decided /\ C5_Scenario) =>
    /\ fraud_detection_result.indicators_found =
         << "Recent policy creation", "Vague claim description",
            "Multiple recent claims", "Theft claim without police report" >>
    /\ RawFraudScore(claim_data, policy_data, customer_history, now) = 28
    /\ fraud_detection_result.fraud_score = 56
    /\ fraud_detection_result.risk_category = "Medium"
    /\ claim_status = "Under Review"

\* the scenario of C6: the leaking-pipe description, policy active 400 days
\* at the call, no recent claims, reported on a weekday
C6_Scenario ==
  /\ claim_data.description = DescLeakingPipe
  /\ claim_data.report_date = Date(400)
  /\ Len(claim_data.items) <= 15
  /\ policy_data.start_date.ok
  /\ now - policy_data.start_date.day = 400
  /\ customer_history.recent_claims = 0

\* C6 as stated: in that scenario only the water-damage rule triggers: raw
\* 0.7, normalized 0.14, category Low, status Approved.
C6_OnlyWaterDamageTriggers ==
  (Decided /\ C6_Scenario) =>
    /\ fraud_detection_result.indicators_found =
         << "Water damage claim without weather event" >>
    /\ RawFraudScore(claim_data, policy_data, customer_history, now) = 7
    /\ fraud_detection_result.fraud_score = 14
    /\ fraud_detection_result.risk_category = "Low"
    /\ claim_status = "Approved"

\* C6 amended: the description has 10 words, so Vague description triggers
\* too: the rules are Vague description and Water damage, raw 1.3,
\* normalized 0.26, category Low, status Approved.
C6_VagueAndWaterDamageTrigger ==
  (Decided /\ C6_Scenario) =>
    /\ fraud_detection_result.indicators_found =
         << "Vague claim description",
            "Water damage claim without weather event" >>
    /\ RawFraudScore(claim_data, policy_data, customer_history, now) = 13
    /\ fraud_detection_result.fraud_score = 26
    /\ fraud_detection_result.risk_category = "Low"
    /\ claim_status = "Approved"

\* the leaking-pipe scenario has been scored and decided
C6_ScenarioDecided ==
  Decided /\ C6_Scenario

\* C19: detect_fraud is a function of its arguments alone: called with the
\* claim, policy and history of this call on any other day it returns the
\* result of this call.
C19_ResultIndependentOfCallDate ==
  Scored =>
    \A day \in CallDays :
      detect_fraud(claim_data, policy_data, customer_history, day) =
        fraud_detection_result

\* a date of the call does not parse
SomeDateUnparsable ==
  ~policy_data.start_date.ok \/ ~claim_data.report_date.ok

\* the weight of a rule that triggered
WeightIf(hit, weight) ==
  IF hit THEN weight ELSE 0

\* the rules that trigger when a rule without its date does not
RulesHit(cd, pd, ch, today) ==
  <<pd.start_date.ok /\ today - pd.start_date.day < 30,
    cd.report_date.ok /\ cd.report_date.day % 7 >= 5,
    check_vague_description(cd),
    check_excessive_items(cd),
    check_multiple_claims(ch),
    check_water_damage_no_weather(cd),
    check_theft_no_police_report(cd)>>

RuleLabels ==
  <<"Recent policy creation", "Claim filed on weekend",
    "Vague claim description", "Excessive number of items claimed",
    "Multiple recent claims", "Water damage claim without weather event",
    "Theft claim without police report">>

\* C20: when the policy start date or the report date is missing or does
\* not parse, detect_fraud returns a result in which the rule that needs
\* the date has not triggered (no weight, no indicator) and every other
\* rule counts as usual.
C20_UnparsableDateRuleNotTriggered ==
  (Scored /\ SomeDateUnparsable) =>
    LET hit == RulesHit(claim_data, policy_data, customer_history, now)
        raw == WeightIf(hit[1], 7) + WeightIf(hit[2], 3) +
               WeightIf(hit[3], 6) + WeightIf(hit[4], 5) +
               WeightIf(hit[5], 7) + WeightIf(hit[6], 7) +
               WeightIf(hit[7], 8)
        found == fraud_detection_result.indicators_found
    IN  /\ Len(hit) = Len(RuleLabels)
        /\ ~policy_data.start_date.ok =>
             \A k \in 1..Len(found) : found[k] # "Recent policy creation"
        /\ ~claim_data.report_date.ok =>
             \A k \in 1..Len(found) : found[k] # "Claim filed on weekend"
        /\ found = SelectSeq(RuleLabels,
                             LAMBDA l : \E k \in 1..7 :
                                          RuleLabels[k] = l /\ hit[k])
        /\ fraud_detection_result.fraud_score =
             IF 2 * raw < 100 THEN 2 * raw ELSE 100

\* C20 witness: neither date parses and four other rules triggered
C20_BothDatesUnparsable ==
  /\ Scored
  /\ ~policy_data.start_date.ok
  /\ ~claim_data.report_date.ok
  /\ fraud_detection_result.indicators_found =
       <<"Vague claim description", "Excessive number of items claimed",
         "Multiple recent claims", "Theft claim without police report">>
  /\ fraud_detection_result.fraud_score = 52

\* the checks of the seven rules on the arguments of the call, in the order
\* the claim gives
Triggered ==
  <<check_recent_policy(policy_data, now),
    check_weekend_claim(claim_data),
    check_vague_description(claim_data),
    check_excessive_items(claim_data),
    check_multiple_claims(customer_history),
    check_water_damage_no_weather(claim_data),
    check_theft_no_police_report(claim_data)>>

\* the weights the claim gives, in tenths
ClaimedWeights ==
  <<7, 3, 6, 5, 7, 7, 8>>

\* C22: indicators_found lists the labels of exactly the triggered rules in
\* the order Recent policy, Weekend claim, Vague description, Excessive
\* items, Multiple claims, Water damage without weather, Theft without
\* police report, without duplicates, and the raw score is the sum of the
\* weights 0.7, 0.3, 0.6, 0.5, 0.7, 0.7, 0.8 of exactly those rules.
C22_IndicatorsInRuleOrderAndWeightsSummed ==
  Scored =>
    LET rules == FraudRules(claim_data, policy_data, customer_history, now)
        found == fraud_detection_result.indicators_found
    IN  /\ [k \in 1..Len(rules) |-> rules[k].label] = RuleLabels
        /\ found = SelectSeq(RuleLabels,
                             LAMBDA l : \E k \in 1..7 :
                                          RuleLabels[k] = l /\ rules[k].hit)
        /\ \A i, j \in 1..Len(found) : i # j => found[i] # found[j]
        /\ AccumulateScore(rules, Len(rules)) =
             WeightIf(rules[1].hit, ClaimedWeights[1]) +
             WeightIf(rules[2].hit, ClaimedWeights[2]) +
             WeightIf(rules[3].hit, ClaimedWeights[3]) +
             WeightIf(rules[4].hit, ClaimedWeights[4]) +
             WeightIf(rules[5].hit, ClaimedWeights[5]) +
             WeightIf(rules[6].hit, ClaimedWeights[6]) +
             WeightIf(rules[7].hit, ClaimedWeights[7])

\* C22 witness: all seven rules triggered and the seven labels were returned
C22_AllSevenRulesTriggered ==
  /\ Scored
  /\ fraud_detection_result.indicators_found = RuleLabels
  /\ RawFraudScore(claim_data, policy_data, customer_history, now) = 43

\* C23: the Recent-policy rule triggers exactly when fewer than 30 days lie
\* between policy.start_date and claim.report_date, whatever the day on
\* which detect_fraud is called.
C23_RecentPolicyFromReportDate ==
  (Scored /\ policy_data.start_date.ok /\ claim_data.report_date.ok) =>
    LET found == fraud_detection_result.indicators_found
    IN  (\E k \in 1..Len(found) : found[k] = "Recent policy creation") <=>
          (claim_data.report_date.day - policy_data.start_date.day < 30)

\* C29: with all seven rules triggered the raw score is 4.3; the fraud
\* score never exceeds 0.86, so the cap at 1.0 never takes effect, and a
\* fraud score above 0.7 (category High) comes only with at least six of
\* the seven rules triggered.
C29_ScoreAtMostEightySixHighNeedsSixRules ==
  Scored =>
    LET raw == RawFraudScore(claim_data, policy_data, customer_history, now)
        found == fraud_detection_result.indicators_found
    IN  /\ found = RuleLabels => raw = 43
        /\ fraud_detection_result.fraud_score <= 86
        /\ fraud_detection_result.fraud_score = 2 * raw
        /\ fraud_detection_result.fraud_score > 70 => Len(found) >= 6
        /\ fraud_detection_result.risk_category = "High" => Len(found) >= 6

\* C29 witness: six rules triggered, all but the weekend rule; the score is
\* 0.80 and the category High
C29_SixRulesGiveHigh ==
  /\ Scored
  /\ Len(fraud_detection_result.indicators_found) = 6
  /\ ~Triggered[2]
  /\ fraud_detection_result.fraud_score = 80
  /\ fraud_detection_result.risk_category = "High"

----------------------------------------------------------------------------
(* Claims about ClaimsProcessor.process_claim, checked in Spec.            *)

\* process_claim has returned to its caller
Returned ==
  mode = "process_claim" /\ pc = "returned"

\* some call into the store raised
StoreFailed ==
  \E i \in 1..Len(store_calls) : store_calls[i].raised

\* the store accepted the last activity record handed to it
LogAccepted ==
  /\ store_calls # <<>>
  /\ store_calls[Len(store_calls)].op = "log_agent_activity"
  /\ ~store_calls[Len(store_calls)].raised

\* the newest activity record is the failure with the error description e
FailureLogged(e) ==
  LET log == tables.agent_activities
  IN  /\ log # <<>>
      /\ log[Len(log)].id = Len(log)
      /\ log[Len(log)].success = FALSE
      /\ log[Len(log)].output = [error |-> e]

\* the result is a failure with the error description e
FailureReturned(e) ==
  /\ result.success = FALSE
  /\ result.error = e
  /\ e # ""

\* the faults that take the call to its except clause
EscapingFaults ==
  {"analyze_image", "extract_items", "detect_fraud_error",
   "calculate_claim_amount"}

\* C2 as stated: process_claim never raises to its caller, and whenever
\* image analysis, item extraction, fraud scoring, amount computation or
\* the store fails, the call returns success=false with an error
\* description and the failure is in the activity log when the store
\* accepts it.
C2_EveryFailureReturnsFailure ==
  /\ pc # "raised"
  /\ (Returned /\ (fault # "none" \/ StoreFailed)) =>
       /\ FailureReturned(result.error)
       /\ LogAccepted => FailureLogged(result.error)

\* C2 amended: process_claim never raises to its caller.  When image
\* analysis, item extraction or amount computation raises, or the fraud
\* detection tool answers with an error document, the call returns
\* success=false with the error description, and the failure is the newest
\* activity record when the store accepts it.  A failure of the store
\* alone, and an exception caught inside _detect_fraud, are absorbed: the
\* call returns success=true.
C2_FailuresReturnedStoreFailuresAbsorbed ==
  /\ pc # "raised"
  /\ Returned =>
       IF fault \in EscapingFaults
         THEN /\ FailureReturned(ErrorText(fault))
              /\ LogAccepted => FailureLogged(ErrorText(fault))
         ELSE /\ result.success = TRUE
              /\ result.claim_assessment = claim_assessment

\* C2 witness: the amount computation raised; the call returned the failure
\* and the store, which held one record, accepted the activity record
C2_FailureReturnedAndLogged ==
  /\ Returned
  /\ fault = "calculate_claim_amount"
  /\ FailureReturned("amount computation failed")
  /\ LogAccepted
  /\ FailureLogged("amount computation failed")
  /\ Len(tables.agent_activities) = 2

\* what the caller is told: the success flag and, for a success, the
\* status, the fraud score and the claim amount
Outcome(r) ==
  IF r.success
    THEN [success |-> TRUE,
          status |-> r.claim_assessment.status,
          fraud_score |-> r.claim_assessment.fraud_score,
          claim_amount |-> r.claim_assessment.claim_amount]
    ELSE [success |-> FALSE]

\* the outcome of the call on its inputs when every store call succeeds
OutcomeWithStore ==
  IF fault \in EscapingFaults
    THEN [success |-> FALSE]
    ELSE LET pd == get_policy_data(PolicyNumber)
             cd == [description |-> claim_description,
                    report_date |-> Date(now),
                    items |-> extract_items_from_analysis(raw_analysis),
                    police_report |->
                      Contains(Lower(claim_description), KW_police_report)]
             fraud == detect_fraud_wrapper(cd, pd, get_customer_history, now,
                                           fault)
         IN  [success |-> TRUE,
              status |-> DetermineClaimStatus(fraud.fraud_score),
              fraud_score |-> fraud.fraud_score,
              claim_amount |-> calculate_claim_amount(cd, pd)]

\* C16: whichever store calls raise while the claim is saved and the
\* activity is logged, process_claim returns, and the success flag, the
\* status, the fraud score and the claim amount are those of the call
\* whose store calls all succeed.
C16_StoreFailureKeepsOutcome ==
  /\ pc # "raised"
  /\ Returned => Outcome(result) = OutcomeWithStore

\* C16 witness: saving the claim and logging the activity both raised and
\* the claim was returned under review with its amount
C16_BothStoreCallsRaised ==
  /\ Returned
  /\ Len(store_calls) = 2
  /\ store_calls[1].raised
  /\ store_calls[2].raised
  /\ result.success = TRUE
  /\ result.claim_assessment.status = "Under Review"
  /\ result.claim_assessment.claim_amount > 0
  /\ tables.claims = <<>>

\* fraud scoring failed during the call
FraudScoringFailed ==
  fault \in {"detect_fraud_raises", "detect_fraud_error"}

\* C17: when fraud scoring fails inside process_claim, the failure is
\* turned into a default low-risk assessment without indicators and the
\* call goes on to a claim decision and returns success=true.
C17_FraudFailureGivesDefaultAssessment ==
  (Returned /\ FraudScoringFailed) =>
    /\ fraud_detection_result = FallbackFraudResult
    /\ result.success = TRUE
    /\ result.claim_assessment.fraud_indicators = <<>>
    /\ result.claim_assessment.status \in
         {"Approved", "Under Review", "Rejected"}

\* the call has ended: it returned a result or an exception left it
CallEnded ==
  mode = "process_claim" /\ pc \in {"returned", "raised"}

\* fraud scoring has run for the claim of the call and gave a score
FraudScoreComputed ==
  /\ fraud_detection_result # NoFraudResult
  /\ "fraud_score" \in DOMAIN fraud_detection_result

\* C21: every submitted claim reaches the Scored state (item extraction and
\* fraud scoring run for each process_claim call, so a call that has ended
\* has scored its claim), and a status is chosen for an assessment only
\* after a fraud score has been computed for the claim.
C21_EverySubmittedClaimIsScored ==
  /\ CallEnded => FraudScoreComputed
  /\ claim_assessment # NoClaimAssessment => FraudScoreComputed

\* the calls of log_agent_activity made during the call
ActivityCalls ==
  {i \in 1..Len(store_calls) : store_calls[i].op = "log_agent_activity"}

\* C25: when no call into the store raises, a call of process_claim that
\* has returned has appended exactly one record to the activity log, and
\* the success field of that record is the success flag of the result,
\* whichever statement of the workflow failed.
C25_OneActivityRecordWithResultFlag ==
  (Returned /\ ~StoreFailed) =>
    LET log == tables.agent_activities
    IN  /\ Cardinality(ActivityCalls) = 1
        /\ log # <<>>
        /\ \E before \in StoreContents :
             before.agent_activities = SubSeq(log, 1, Len(log) - 1)
        /\ log[Len(log)].id = Len(log)
        /\ log[Len(log)].success = result.success

\* C25 witness: the fraud detection tool answered with an error document;
\* the log, which held one record, has the failure as its second record and
\* the call returned success=false
C25_FailureRecordedOnce ==
  /\ Returned
  /\ ~StoreFailed
  /\ fault = "detect_fraud_error"
  /\ Len(tables.agent_activities) = 2
  /\ tables.agent_activities[2].success = FALSE
  /\ result.success = FALSE

\* fraud scoring has returned its result to process_claim
WorkflowScored ==
  /\ mode = "process_claim"
  /\ pc = "fraud_scored"
  /\ "indicators_found" \in DOMAIN fraud_detection_result

\* "no police report"
KW_no_police_report ==
  <<"n","o"," ">> \o KW_police_report

\* the description of the claim mentions theft or stolen
MentionsTheft ==
  \/ Contains(Lower(claim_description), KW_theft)
  \/ Contains(Lower(claim_description), KW_stolen)

\* the description does not speak of a police report, or says there is none
NoPoliceReportFiled ==
  \/ ~Contains(Lower(claim_description), KW_police_report)
  \/ Contains(Lower(claim_description), KW_no_police_report)

\* C27: in process_claim the Theft-without-police-report rule triggers for
\* every claim whose description mentions theft or stolen and for which no
\* police report was filed, a description that says "no police report"
\* included.
C27_TheftWithoutReportTriggers ==
  (WorkflowScored /\ fault = "none" /\ MentionsTheft /\ NoPoliceReportFiled) =>
    \E k \in 1..Len(fraud_detection_result.indicators_found) :
      fraud_detection_result.indicators_found[k] =
        "Theft claim without police report"

\* the lines of the image analysis that describe an item
ListedItems ==
  SelectSeq(StripAll(SplitOn(raw_analysis, {"\n"})), IsItemLine)

\* C28: the item list handed to fraud scoring is not cut below the
\* threshold of the Excessive-items rule: for an image analysis that lists
\* more than 15 items the rule triggers in process_claim.
C28_ManyItemsTriggerExcessiveItems ==
  (WorkflowScored /\ fault = "none" /\ Len(ListedItems) > 15) =>
    /\ Len(claim_data.items) > 15
    /\ \E k \in 1..Len(fraud_detection_result.indicators_found) :
         fraud_detection_result.indicators_found[k] =
           "Excessive number of items claimed"

\* the store accepted the claim record of the call
ClaimSaved ==
  /\ mode = "process_claim"
  /\ \E i \in 1..Len(store_calls) :
       store_calls[i].op = "create_claim" /\ ~store_calls[i].raised

\* C30: the claim record process_claim saved has amount_approved equal to
\* amount_requested when its status is Approved and 0 for any other status,
\* and its status, fraud score and amount are those of the claim assessment
\* returned to the caller.
C30_SavedRecordMatchesAssessment ==
  ClaimSaved =>
    /\ Len(tables.claims) = 1
    /\ LET saved == tables.claims[1]
       IN  /\ saved.amount_approved =
                IF saved.status = "Approved" THEN saved.amount_requested
                                             ELSE 0
           /\ Returned =>
                /\ result.success
                /\ saved.status = result.claim_assessment.status
                /\ saved.fraud_score = result.claim_assessment.fraud_score
                /\ saved.amount_requested =
                     result.claim_assessment.claim_amount

\* C30 witness: a claim under review was saved with a requested amount and
\* nothing approved, and the assessment was returned
C30_UnderReviewSavedWithNothingApproved ==
  /\ ClaimSaved
  /\ Returned
  /\ tables.claims[1].status = "Under Review"
  /\ tables.claims[1].amount_requested > 0
  /\ tables.claims[1].amount_approved = 0
  /\ result.claim_assessment.status = "Under Review"

----------------------------------------------------------------------------
(* Claims about _categorize_query, checked in SpecCategorize.              *)

\* _categorize_query has returned
Categorized ==
  mode = "categorize_query" /\ pc = "returned"

\* the categories, by index, that score highest for the query
TopCategories ==
  {c \in 1..Len(categories) :
     \A d \in 1..Len(categories) :
       CategoryScore(Lower(query), d) <= CategoryScore(Lower(query), c)}

\* C11: the category returned is the one with the most keywords present in
\* the lower-cased query, the one declared first among those that share the
\* highest score, and general_inquiry when every score is zero.
C11_HighestScoreFirstDeclared ==
  Categorized =>
    IF \A c \in 1..Len(categories) : CategoryScore(Lower(query), c) = 0
      THEN query_category = "general_inquiry"
      ELSE \E c \in TopCategories :
             /\ query_category = categories[c].name
             /\ \A d \in TopCategories : c <= d

\* C11 witness: 'error' is a keyword of technical_support and of complaint,
\* the tie went to technical_support
C11_TieReturnedFirstDeclared ==
  /\ Categorized
  /\ query = <<"e","r","r","o","r">>
  /\ Cardinality(TopCategories) = 2
  /\ query_category = "technical_support"

\* the scores of the example query
ExampleScore(name) ==
  LET c == CHOOSE d \in 1..Len(categories) : categories[d].name = name
  IN  CategoryScore(Lower(QueryDeductibleBill), c)

\* C12 as stated: the example query returns policy_info.
C12_ExampleReturnsPolicyInfo ==
  (Categorized /\ query = QueryDeductibleBill) =>
    query_category = "policy_info"

\* C12 amended: the example query has one keyword of policy_info
\* (deductible) and two of billing (bill, pay); there is no tie and the
\* category returned is billing.
C12_ExampleReturnsBilling ==
  (Categorized /\ query = QueryDeductibleBill) =>
    /\ ExampleScore("policy_info") = 1
    /\ ExampleScore("billing") = 2
    /\ query_category = "billing"

\* C12 witness: the example query has been categorized
C12_ExampleCategorized ==
  /\ Categorized
  /\ query = QueryDeductibleBill
  /\ query_category # ""

----------------------------------------------------------------------------
(* Claims about the document analysis, checked in SpecDocument.            *)

\* the call has ended, by returning or by raising
DocumentCallEnded ==
  /\ mode \in {"analyze_document", "document_analysis_tool"}
  /\ pc \in {"returned", "raised"}

\* the call has returned an analysis
AnalysisReturned ==
  /\ DocumentCallEnded
  /\ "document_type" \in DOMAIN document_result

\* the document types, by index, that score highest for the text
TopTypes ==
  LET type_scores == TypeScores(document_text.chars)
  IN  {t \in 1..Len(type_scores) :
         \A d \in 1..Len(type_scores) : type_scores[d] <= type_scores[t]}

\* C13: the document type returned is the one with the most patterns
\* found in the text, the one declared first (policy, claim, invoice,
\* receipt) among those that share the highest count, and unknown when no
\* pattern is found, as in the empty text.
C13_HighestCountFirstDeclared ==
  /\ [t \in 1..Len(document_patterns) |-> document_patterns[t].type] =
       <<"policy", "claim", "invoice", "receipt">>
  /\ AnalysisReturned =>
       IF \A t \in 1..Len(document_patterns) :
            TypeScore(document_text.chars, t) = 0
         THEN document_result.document_type = "unknown"
         ELSE \E t \in TopTypes :
                /\ document_result.document_type = document_patterns[t].type
                /\ \A d \in TopTypes : t <= d

\* C13 witness: a claim line before a policy line, one pattern of each is
\* found, the tie went to policy
C13_TieReturnedFirstDeclared ==
  /\ AnalysisReturned
  /\ document_text.chars =
       <<"C","l","a","i","m"," "," ","n","u","m","b","e","r","\n",
         "P","o","l","i","c","y"," ","N","u","m","b","e","r",":"," ",
         "P","-","1">>
  /\ TopTypes = {1, 2}
  /\ document_result.document_type = "policy"

\* C14: the document analysis never raises; when a step of the analysis
\* fails the caller receives an analysis with document_type, empty
\* entities, empty key-values and summary that carries an error marker.
C14_FailureGivesMarkedEmptyAnalysis ==
  DocumentCallEnded =>
    /\ pc # "raised"
    /\ {"document_type", "entities", "key_values", "summary"} \subseteq
         DOMAIN document_result
    /\ ~document_text.is_str =>
         /\ "error" \in DOMAIN document_result
         /\ DOMAIN document_result.entities = {}
         /\ document_result.key_values = <<>>

\* the matches of the key-value pattern in the text of the call, in scan
\* order, each with its label trimmed and lower-cased and its value trimmed
ScannedPairs ==
  LET matches == re_findall(kv_pattern, document_text.chars, 1)
  IN  [k \in 1..Len(matches) |->
         [key |-> Lower(Strip(matches[k][1])), value |-> Strip(matches[k][2])]]

\* the scanned pairs that the extraction takes: neither part is empty
TakenPairs(pairs) ==
  {k \in 1..Len(pairs) : pairs[k].key # <<>> /\ pairs[k].value # <<>>}

\* C24: the key-values of the analysis hold, for each trimmed and
\* lower-cased label of the text, the value of the first line in scan order
\* that carries this label.
C24_FirstValueKeptPerKey ==
  AnalysisReturned =>
    LET pairs == ScannedPairs
        taken == TakenPairs(pairs)
        key_values == document_result.key_values
    IN  /\ {key_values[e].key : e \in 1..Len(key_values)} =
             {pairs[k].key : k \in taken}
        /\ \A e \in 1..Len(key_values) :
             \E k \in taken :
               /\ pairs[k].key = key_values[e].key
               /\ \A j \in taken : pairs[j].key = pairs[k].key => k <= j
               /\ key_values[e].value = pairs[k].value

----------------------------------------------------------------------------
(* Claims about _calculate_claim_amount, checked in SpecAmount.            *)

\* _calculate_claim_amount has returned
AmountComputed ==
  mode = "calculate_claim_amount" /\ pc = "returned"

\* the sum of the value estimates of the claimed items
ClaimedValue ==
  SumItemValues(claim_data.items, Len(claim_data.items))

\* the item holds none of the keywords of item_values
Unrecognized(item) ==
  \A k \in 1..Len(item_values) :
    \A w \in item_values[k].keywords : ~Contains(Lower(item), w)

\* C15: the claim amount is max(0, min(sum of the item value estimates +
\* 1000, coverage_amount) - deductible), an item without a recognized
\* keyword counting 500; it is never negative and never above
\* coverage_amount.
C15_AmountFormulaAndRange ==
  AmountComputed =>
    LET capped == IF ClaimedValue + 1000 <= policy_data.coverage_amount
                    THEN ClaimedValue + 1000
                    ELSE policy_data.coverage_amount
        deductible == policy_data.coverage_details.deductible
    IN  /\ claim_amount = IF capped >= deductible
                            THEN capped - deductible
                            ELSE 0
        /\ claim_amount >= 0
        /\ claim_amount <= policy_data.coverage_amount
        /\ \A k \in 1..Len(claim_data.items) :
             Unrecognized(claim_data.items[k]) =>
               get_item_value(claim_data.items[k]) = 500

\* C15 witness: jewelry and an unrecognized item, 2500 + 1000 capped by a
\* coverage of 1500, less the deductible of 500
C15_CappedByCoverage ==
  /\ AmountComputed
  /\ Len(claim_data.items) = 2
  /\ Unrecognized(claim_data.items[2])
  /\ ClaimedValue = 2500
  /\ policy_data.coverage_amount = 1500
  /\ policy_data.coverage_details.deductible = 500
  /\ claim_amount = 1000

----------------------------------------------------------------------------
(* Claims about the two claim paths, checked in SpecCutoffs.               *)

\* both paths have chosen a status for the score
BothDecided ==
  mode = "claim_status" /\ pc = "decided"

----------------------------------------------------------------------------
(* Claims about the shared record store, checked in SpecStore.             *)

\* the names of the tables
TableNames ==
  DOMAIN store_tables

\* the serial numbers of the calls whose append statement has run
AppendedCalls ==
  {n \in 1..calls_begun :
     \A a \in Agents :
       agent_call[a].record.call = n => agent_pc[a] = "appended"}

\* C26: after any calls of create_policy, create_claim, create_escalation
\* and log_agent_activity, interleaved or not, the records of each table
\* have pairwise distinct ids, and every record that was appended is in
\* its table once.
C26_DistinctIdsNothingLost ==
  mode = "store" =>
    /\ \A t \in TableNames :
         \A i, j \in 1..Len(store_tables[t]) :
           i # j => store_tables[t][i].id # store_tables[t][j].id
    /\ \A n \in AppendedCalls :
         Cardinality({<<t, i>> \in TableNames \X (1..MaxStoreCalls + 1) :
                        /\ i <= Len(store_tables[t])
                        /\ store_tables[t][i].call = n}) = 1

====
